---- MODULE Spec2Model ----
(***************************************************************************)
(* LD masking pipelines of FriggD/mestrado-projeto.                        *)
(*                                                                         *)
(* Text is modelled as TLA+ strings and handled character by character,    *)
(* as Python does: str.strip, str.split, float(), int(), f-string keys,    *)
(* key.split('_') and sorted() on strings are all computed here.  A TLA+   *)
(* string holds the characters U+0001 to U+00FF other than U+0060.         *)
(* Floats are IEEE 754 binary64 numbers with their exact value, and the    *)
(* arithmetic rounds as the hardware does.  numpy's global generator is    *)
(* the Mersenne Twister, computed word by word.  missing_rate is the       *)
(* double its literal denotes, and int(n * missing_rate) truncates the     *)
(* rounded product of two doubles.                                         *)
(***************************************************************************)
EXTENDS Integers, Sequences, FiniteSets, TLC

VARIABLES
    strategy,       \* which class's create_mask_from_ld / loader is running
    pc,             \* position inside that method
    file,           \* the lines of ld_file_path, as readline returns them
    pos,            \* number of lines already consumed from f
    batch_size,     \* the batch_size argument
    lines,          \* the list `lines` of the current batch
    r2_threshold,   \* self.r2_threshold
    k,              \* self.k
    missing_rate,   \* self.missing_rate, a double
    snp_neighbors,  \* defaultdict(list): key -> list of (neighbor, r2)
    unique_snps,    \* set of keys
    chunks,         \* the list of batch frames of a loader (chunks / ld_chunks)
    snp_list,       \* sorted(list(unique_snps))
    seed_snps,      \* result of np.random.choice (seeds / masked_snps array)
    masked_snps,    \* set of masked keys
    mask_sets,      \* the three score arrays of RandomMasking
    stage2,         \* masked_indices after the stage-2 filter
    masked_indices, \* masked_indices returned by apply_structured_masking
    mask_df,        \* rows of the output table
    rng,            \* state of numpy's global generator
    runs,           \* number of create_mask_from_ld calls completed
    first_out,      \* the first output table of each strategy in this process
    libm,           \* the squares C's pow has returned in this process
    states,         \* the list `states` of simulate_maf
    maf_values,     \* the list maf_values of simulate_maf
    ld_matrix,      \* ld_matrix of create_ld_clusters, as far as it was built
    clusters,       \* what create_ld_clusters returned
    df,             \* the frame df of build_pytorch_geometric_graph
    node_ids,       \* list(unique_node_ids)
    classes,        \* node_encoder.classes_
    edge_indices,   \* the list edge_indices of batch_edge_index tensors
    nodes,          \* the frame create_nodes_from_ids returned
    n_samples,      \* the n_samples argument of simulate_sample_data
    sample_ids,     \* the list sample_ids of the row-wise simulator
    genotype_data,  \* genotype_data, as the list of its values
    sample_categories,  \* the list sample_categories
    missing_data,   \* missing_data, as the list of its values
    sample_missingness, \* sample_missingness, as the list of its values
    pattern_analysis    \* what assess_missing_patterns returned

vars == <<strategy, pc, file, pos, batch_size, lines, r2_threshold, k,
          missing_rate, snp_neighbors, unique_snps, chunks, snp_list,
          seed_snps, masked_snps, mask_sets, stage2, masked_indices, mask_df,
          rng, runs, first_out, libm, states, maf_values, ld_matrix,
          clusters, df, node_ids, classes, edge_indices, nodes, n_samples,
          sample_ids, genotype_data, sample_categories, missing_data,
          sample_missingness, pattern_analysis>>

\* The state of the MAF simulator and clustering engine, of the graph
\* builder, and of the row-wise simulator.
mafVars == <<states, maf_values, ld_matrix, clusters>>

graphVars == <<df, node_ids, classes, edge_indices, nodes>>

rowVars == <<n_samples, sample_ids, genotype_data, sample_categories,
             missing_data, sample_missingness, pattern_analysis>>

-----------------------------------------------------------------------------
(* Strings *)

Ch(s, i) == SubSeq(s, i, i)

Min(a, b) == IF a <= b THEN a ELSE b

Max(a, b) == IF a >= b THEN a ELSE b

\* Python's str.isspace, which str.strip() and str.split() use: the tab,
\* line feed, vertical tab, form feed, carriage return, the separators
\* U+001C to U+001F, the space, U+0085 and U+00A0.
Whitespace ==
    {" ", "\t", "\n", "\r", "\f", "", "", "", "", "", "", " "}

IsSpace(c) == c \in Whitespace

\* The least member of a set of integers that is not empty.
MinOf(S) == CHOOSE i \in S : \A j \in S : i <= j

\* The first position from i on that holds no whitespace, Len(s) + 1 when
\* there is none.
RECURSIVE NonSpaceFrom(_, _)
NonSpaceFrom(s, i) ==
    IF i > Len(s) \/ ~IsSpace(Ch(s, i)) THEN i ELSE NonSpaceFrom(s, i + 1)

\* The last position up to i that holds no whitespace, 0 when there is none.
RECURSIVE NonSpaceUpTo(_, _)
NonSpaceUpTo(s, i) ==
    IF i = 0 \/ ~IsSpace(Ch(s, i)) THEN i ELSE NonSpaceUpTo(s, i - 1)

LStrip(s) == SubSeq(s, NonSpaceFrom(s, 1), Len(s))

RStrip(s) == SubSeq(s, 1, NonSpaceUpTo(s, Len(s)))

\* str.strip()
Strip(s) == RStrip(LStrip(s))

\* The whitespace that float(str) and int(str) drop around the text: of
\* the characters below U+0080 the space and the tab to the carriage
\* return only, so the separators U+001C to U+001F stay in the text.
NumberSpace == Whitespace \ {"", "", "", ""}

RECURSIVE NumberFrom(_, _)
NumberFrom(s, i) ==
    IF i > Len(s) \/ Ch(s, i) \notin NumberSpace THEN i ELSE NumberFrom(s, i + 1)

RECURSIVE NumberUpTo(_, _)
NumberUpTo(s, i) ==
    IF i = 0 \/ Ch(s, i) \notin NumberSpace THEN i ELSE NumberUpTo(s, i - 1)

NumberRStrip(s) == SubSeq(s, 1, NumberUpTo(s, Len(s)))

\* The text of a number without the whitespace around it
NumberStrip(s) == NumberRStrip(SubSeq(s, NumberFrom(s, 1), Len(s)))

\* The first position from i on that holds whitespace, Len(s) + 1 when
\* there is none.
RECURSIVE SpaceFrom(_, _)
SpaceFrom(s, i) ==
    IF i > Len(s) \/ IsSpace(Ch(s, i)) THEN i ELSE SpaceFrom(s, i + 1)

\* The fields of s from position i, which holds no whitespace, with the
\* first of them ending before position j.
RECURSIVE SplitFrom(_, _)
FieldsFrom(s, i, j) == <<SubSeq(s, i, j - 1)>> \o SplitFrom(s, j)

\* The fields of s from position i on.
SplitAt(s, i) == IF i > Len(s) THEN <<>> ELSE FieldsFrom(s, i, SpaceFrom(s, i))

SplitFrom(s, i) == SplitAt(s, NonSpaceFrom(s, i))

\* str.split() with no argument: runs of whitespace separate the fields and
\* no field is empty.
Split(s) == SplitFrom(s, 1)

\* Index of the first occurrence of character c in s, 0 when there is none.
Find(s, c) ==
    LET hits == {i \in 1..Len(s) : Ch(s, i) = c}
    IN  IF hits = {} THEN 0 ELSE MinOf(hits)

\* str.split(sep) for a one-character separator: empty fields are kept.
RECURSIVE SplitOn(_, _)
SplitOn(s, sep) ==
    LET i == Find(s, sep)
    IN  IF i = 0 THEN <<s>>
        ELSE <<SubSeq(s, 1, i - 1)>> \o SplitOn(SubSeq(s, i + 1, Len(s)), sep)

\* The characters U+0001 to U+00FF in the order of their code points,
\* without U+0060.
Latin1 == "\t\n\f\r !\"#$%&'()*+,-./0123456789:;<=>?@ABCDEFGHIJKLMNOPQRSTUVWXYZ[\\]^_abcdefghijklmnopqrstuvwxyz{|}~ ¡¢£¤¥¦§¨©ª«¬­®¯°±²³´µ¶·¸¹º»¼½¾¿ÀÁÂÃÄÅÆÇÈÉÊËÌÍÎÏÐÑÒÓÔÕÖ×ØÙÚÛÜÝÞßàáâãäåæçèéêëìíîïðñòóôõö÷øùúûüýþÿ"

\* The code point of a character.
Ord(c) ==
    LET i == CHOOSE j \in 1..Len(Latin1) : Ch(Latin1, j) = c
    IN  IF i < 96 THEN i ELSE i + 1

\* set(l) for a list.
SeqToSet(l) == {l[i] : i \in 1..Len(l)}

\* Python's < on str: by code point, a proper prefix first.
StrLess(a, b) ==
    LET d == {i \in 1..Min(Len(a), Len(b)) : Ch(a, i) # Ch(b, i)}
    IN  IF d = {} THEN Len(a) < Len(b)
        ELSE Ord(Ch(a, MinOf(d))) < Ord(Ch(b, MinOf(d)))

\* sorted(list(S)) for a set of strings.
RECURSIVE Sorted(_)
Sorted(S) ==
    IF S = {} THEN <<>>
    ELSE LET m == CHOOSE x \in S : \A y \in S \ {x} : StrLess(x, y)
         IN  <<m>> \o Sorted(S \ {m})

-----------------------------------------------------------------------------
(* Natural numbers of any size *)

\* A natural number is the sequence of its digits in base 2^15, the least
\* significant first and the most significant not 0; 0 is <<>>.  The
\* operators on them halve their argument where they recur.
Base == 32768

\* a without its leading zero limbs
Trim(a) ==
    LET nz == {i \in 1..Len(a) : a[i] # 0}
    IN  IF nz = {} THEN <<>>
        ELSE SubSeq(a, 1, CHOOSE i \in nz : \A j \in nz : j <= i)

RECURSIVE Big(_)
Big(n) == IF n = 0 THEN <<>> ELSE <<n % Base>> \o Big(n \div Base)

Limb(a, i) == IF i <= Len(a) THEN a[i] ELSE 0

\* The value of a number that fits an integer of the checker.
RECURSIVE Small(_)
Small(a) == IF a = <<>> THEN 0 ELSE a[1] + Base * Small(Tail(a))

\* -1, 0, 1 as a < b, a = b, a > b
BigCmp(a, b) ==
    IF Len(a) < Len(b) THEN -1
    ELSE IF Len(a) > Len(b) THEN 1
    ELSE LET d == {i \in 1..Len(a) : a[i] # b[i]}
         IN  IF d = {} THEN 0
             ELSE LET i == CHOOSE i \in d : \A j \in d : j <= i
                  IN  IF a[i] < b[i] THEN -1 ELSE 1

\* The limbs i..j of a + b + carry, and the carry out of limb j
RECURSIVE AddRange(_, _, _, _, _)
AddRange(a, b, i, j, carry) ==
    IF i > j THEN [v |-> <<>>, c |-> carry]
    ELSE IF i = j
    THEN LET t == Limb(a, i) + Limb(b, i) + carry
         IN  [v |-> <<t % Base>>, c |-> t \div Base]
    ELSE LET mid == (i + j) \div 2
             lo == AddRange(a, b, i, mid, carry)
             hi == AddRange(a, b, mid + 1, j, lo.c)
         IN  [v |-> lo.v \o hi.v, c |-> hi.c]

\* The limbs r.v with the carry r.c as the limb above them.
WithCarry(r) == IF r.c = 0 THEN r.v ELSE Append(r.v, r.c)

BigAdd(a, b) == WithCarry(AddRange(a, b, 1, Max(Len(a), Len(b)), 0))

\* The limbs i..j of a - b - borrow, and the borrow out of limb j
RECURSIVE SubRange(_, _, _, _, _)
SubRange(a, b, i, j, borrow) ==
    IF i > j THEN [v |-> <<>>, c |-> borrow]
    ELSE IF i = j
    THEN LET t == a[i] - Limb(b, i) - borrow
         IN  [v |-> <<t % Base>>, c |-> IF t < 0 THEN 1 ELSE 0]
    ELSE LET mid == (i + j) \div 2
             lo == SubRange(a, b, i, mid, borrow)
             hi == SubRange(a, b, mid + 1, j, lo.c)
         IN  [v |-> lo.v \o hi.v, c |-> hi.c]

\* a - b for a >= b
BigSub(a, b) == Trim(SubRange(a, b, 1, Len(a), 0).v)

\* The limbs i..j of a * m + carry, and the carry out of limb j
RECURSIVE MulRange(_, _, _, _, _)
MulRange(a, m, i, j, carry) ==
    IF i > j THEN [v |-> <<>>, c |-> carry]
    ELSE IF i = j
    THEN LET t == a[i] * m + carry
         IN  [v |-> <<t % Base>>, c |-> t \div Base]
    ELSE LET mid == (i + j) \div 2
             lo == MulRange(a, m, i, mid, carry)
             hi == MulRange(a, m, mid + 1, j, lo.c)
         IN  [v |-> lo.v \o hi.v, c |-> hi.c]

\* a * m + c for 0 <= m, c < Base
MulAdd(a, m, c) == Trim(WithCarry(MulRange(a, m, 1, Len(a), c)))

\* a * Base^n
ShlLimbs(a, n) == IF a = <<>> THEN <<>> ELSE [i \in 1..n |-> 0] \o a

RECURSIVE BigMul(_, _)
BigMul(a, b) ==
    IF b = <<>> \/ a = <<>> THEN <<>>
    ELSE IF Len(b) = 1 THEN MulAdd(a, b[1], 0)
    ELSE LET h == Len(b) \div 2
         IN  BigAdd(BigMul(a, Trim(SubSeq(b, 1, h))),
                    ShlLimbs(BigMul(a, SubSeq(b, h + 1, Len(b))), h))

RECURSIVE Pow2(_)
Pow2(e) == IF e = 0 THEN 1 ELSE 2 * Pow2(e - 1)

\* The number of bits of a limb, and of a number
RECURSIVE Bits(_)
Bits(n) == IF n = 0 THEN 0 ELSE 1 + Bits(n \div 2)

BitLen(a) == IF a = <<>> THEN 0 ELSE 15 * (Len(a) - 1) + Bits(a[Len(a)])

\* a * 2^n
Shl(a, n) == ShlLimbs(MulAdd(a, Pow2(n % 15), 0), n \div 15)

\* floor(a / 2^n)
Shr(a, n) ==
    LET q == n \div 15
        r == n % 15
        t == SubSeq(a, q + 1, Len(a))
    IN  Trim([i \in 1..Len(t) |->
                 (t[i] \div Pow2(r)) + (Limb(t, i + 1) % Pow2(r)) * Pow2(15 - r)])

\* a mod 2^n = 0
LowZero(a, n) ==
    /\ \A i \in 1..Min(n \div 15, Len(a)) : a[i] = 0
    /\ Limb(a, n \div 15 + 1) % Pow2(n % 15) = 0

\* bit n of a (bit 0 is the least significant)
Bit(a, n) == (Limb(a, n \div 15 + 1) \div Pow2(n % 15)) % 2

\* The limbs j..i of floor(a / d) for 0 < d < Base, from limb i down to
\* limb j with the remainder r of the limbs above, and the remainder left
RECURSIVE DivRange(_, _, _, _, _)
DivRange(a, d, i, j, r) ==
    IF i < j THEN [q |-> <<>>, r |-> r]
    ELSE IF i = j
    THEN LET t == r * Base + a[i] IN [q |-> <<t \div d>>, r |-> t % d]
    ELSE LET mid == (i + j) \div 2
             hi == DivRange(a, d, i, mid + 1, r)
             lo == DivRange(a, d, mid, j, hi.r)
         IN  [q |-> lo.q \o hi.q, r |-> lo.r]

\* The quotient and the remainder of res as numbers
QuotientOfLimbs(res) == [q |-> Trim(res.q), r |-> Big(res.r)]

DivSmall(a, d) == QuotientOfLimbs(DivRange(a, d, Len(a), 1, 0))

\* The bits hi..lo of the quotient of a long division by d, as the set of
\* the bits that are 1, with the remainder r of the bits above, and the
\* remainder left
\* One bit of a long division: the bit is 1 when dd, the divisor at that
\* bit, fits in the remainder r.
DivBit(r, dd, bit) ==
    IF BigCmp(r, dd) >= 0 THEN [q |-> {bit}, r |-> BigSub(r, dd)]
    ELSE [q |-> {}, r |-> r]

RECURSIVE DivBits(_, _, _, _)
DivBits(r, d, hi, lo) ==
    IF hi = lo THEN DivBit(r, Shl(d, hi), hi)
    ELSE LET mid == (hi + lo) \div 2
             high == DivBits(r, d, hi, mid + 1)
             low == DivBits(high.r, d, mid, lo)
         IN  [q |-> high.q \cup low.q, r |-> low.r]

\* The number whose bits that are 1 are those of the set S, all below n
BigOfBits(S, n) ==
    LET LimbOf(i) ==
            LET B(j) == IF 15 * (i - 1) + j \in S THEN Pow2(j) ELSE 0
            IN  B(0) + B(1) + B(2) + B(3) + B(4) + B(5) + B(6) + B(7) + B(8)
                    + B(9) + B(10) + B(11) + B(12) + B(13) + B(14)
    IN  Trim([i \in 1..(n \div 15 + 1) |-> LimbOf(i)])

\* The quotient of n bits that the long division res gave
QuotientOfBits(res, n) == [q |-> BigOfBits(res.q, n), r |-> res.r]

\* floor(a / d) and a mod d for a quotient of at most n bits
DivBigBits(a, d, n) ==
    IF n = 0 THEN [q |-> <<>>, r |-> a]
    ELSE QuotientOfBits(DivBits(a, d, n - 1, 0), n)

\* floor(a / d) and a mod d for d of more than one limb
DivBig(a, d) == DivBigBits(a, d, Max(BitLen(a) - BitLen(d) + 1, 0))

\* floor(a / d) and a mod d, d > 0
BigDivMod(a, d) == IF Len(d) = 1 THEN DivSmall(a, d[1]) ELSE DivBig(a, d)

BigSquare(a) == BigMul(a, a)

RECURSIVE Pow5(_)
Pow5(n) ==
    IF n = 0 THEN <<1>>
    ELSE IF n % 2 = 1 THEN MulAdd(Pow5(n - 1), 5, 0)
    ELSE BigSquare(Pow5(n \div 2))

-----------------------------------------------------------------------------
(* Binary floating point *)

\* A float is a record: kind "num" with value (-1)^s * m * 2^e, where m is a
\* natural number of at most 53 bits and e >= -1074, m has exactly 53 bits
\* unless e = -1074 (subnormal numbers and zero); kind "inf" with sign s;
\* kind "nan"; kind "err" stands for a conversion that raised ValueError.
Num(sign, mant, expo) == [kind |-> "num", s |-> sign, m |-> mant, e |-> expo]

NaN == [kind |-> "nan", s |-> 0, m |-> <<>>, e |-> 0]

Inf(s) == [kind |-> "inf", s |-> s, m |-> <<>>, e |-> 0]

ValueError == [kind |-> "err", s |-> 0, m |-> <<>>, e |-> 0]

Zero(s) == Num(s, <<>>, -1074)

\* The formats: bits of precision, exponent of the least bit of the least
\* subnormal number, and exponent of the least bit of the greatest number.
Binary64 == [p |-> 53, emin |-> -1074, emax |-> 971]

Binary32 == [p |-> 24, emin |-> -149, emax |-> 104]

\* The number of mantissa m and exponent ex; a binary32 value is held as
\* the double that equals it, its mantissa moved up by w.
Widened(s, m, ex, w) == Num(s, Shl(m, w), ex - w)

Packed(fmt, s, m, ex) ==
    IF ex > fmt.emax THEN Inf(s)
    ELSE IF m = <<>> THEN Zero(s)
    ELSE IF fmt.p = 53 THEN Num(s, m, ex)
    ELSE Widened(s, m, ex, 53 - BitLen(m))

\* m1 has one bit more than the format keeps when the rounding carried.
Carried(fmt, s, m1, et, carry) ==
    Packed(fmt, s, IF carry THEN Shr(m1, 1) ELSE m1,
           IF carry THEN et + 1 ELSE et)

\* m0 is the number without the bits dropped: half is the first bit
\* dropped, rest tells that more is dropped.
RoundedUp(fmt, s, m1, et) == Carried(fmt, s, m1, et, BitLen(m1) > fmt.p)

Rounded(fmt, s, m0, et, half, rest) ==
    RoundedUp(fmt, s,
              IF half /\ (rest \/ Bit(m0, 0) = 1) THEN BigAdd(m0, <<1>>)
              ELSE m0,
              et)

\* kx * 2^e without its last drop bits, the exponent of the least bit
\* kept being et
Dropped(fmt, s, kx, sticky, et, drop) ==
    Rounded(fmt, s, IF drop <= 0 THEN Shl(kx, -drop) ELSE Shr(kx, drop), et,
            drop > 0 /\ Bit(kx, drop - 1) = 1,
            sticky \/ (drop > 1 /\ ~LowZero(kx, drop - 1)))

\* (kx + f) * 2^e with 0 <= f < 1 and f > 0 iff sticky, rounded to the
\* nearest number of format fmt, ties to even.  When sticky holds, kx has
\* more bits than the format keeps.
RoundTo(fmt, s, kx, e, sticky) ==
    IF kx = <<>> THEN Zero(s)
    ELSE Dropped(fmt, s, kx, sticky,
                 Max(e + BitLen(kx) - fmt.p, fmt.emin),
                 Max(e + BitLen(kx) - fmt.p, fmt.emin) - e)

\* The quotient qr of a division that scaled by 2^t, rounded
RoundedQuotient(s, qr, e, t) ==
    RoundTo(Binary64, s, qr.q, e - t, qr.r # <<>>)

\* (n / d) * 2^e for n > 0, the quotient taken with 55 bits or more
Scaled(s, n, d, e, t) ==
    RoundedQuotient(s, BigDivMod(IF t >= 0 THEN Shl(n, t) ELSE n,
                                 IF t >= 0 THEN d ELSE Shl(d, -t)),
                    e, t)

\* (n / d) * 2^e rounded to the nearest double
RoundQ(s, n, d, e) ==
    IF n = <<>> THEN Zero(s)
    ELSE Scaled(s, n, d, e, 55 - (BitLen(n) - BitLen(d)))

\* a + b, a - b, a * b, a / b of IEEE 754 binary64 (a / 0 as numpy gives it)
FNeg(a) == [a EXCEPT !.s = 1 - a.s]

\* ka * 2^e0 and kb * 2^e0 are the magnitudes of a and b, c compares them
SumOf(a, b, ka, kb, c, e0) ==
    IF a.s # b.s /\ c = 0 THEN Zero(0)
    ELSE RoundTo(Binary64,
                 IF a.s = b.s \/ c > 0 THEN a.s ELSE b.s,
                 IF a.s = b.s THEN BigAdd(ka, kb)
                 ELSE IF c > 0 THEN BigSub(ka, kb)
                 ELSE BigSub(kb, ka),
                 e0, FALSE)

Compared(a, b, ka, kb, e0) == SumOf(a, b, ka, kb, BigCmp(ka, kb), e0)

Aligned(a, b, e0) ==
    Compared(a, b, Shl(a.m, a.e - e0), Shl(b.m, b.e - e0), e0)

FAdd(a, b) ==
    IF a.kind = "nan" \/ b.kind = "nan" THEN NaN
    ELSE IF a.kind = "inf"
    THEN (IF b.kind = "inf" /\ b.s # a.s THEN NaN ELSE a)
    ELSE IF b.kind = "inf" THEN b
    ELSE Aligned(a, b, Min(a.e, b.e))

FSub(a, b) == FAdd(a, FNeg(b))

FMul(a, b) ==
    LET s == (a.s + b.s) % 2
    IN  IF a.kind = "nan" \/ b.kind = "nan" THEN NaN
        ELSE IF a.kind = "inf" \/ b.kind = "inf"
        THEN (IF (a.kind = "num" /\ a.m = <<>>) \/ (b.kind = "num" /\ b.m = <<>>)
              THEN NaN ELSE Inf(s))
        ELSE RoundTo(Binary64, s, BigMul(a.m, b.m), a.e + b.e, FALSE)

FDiv(a, b) ==
    LET s == (a.s + b.s) % 2
    IN  IF a.kind = "nan" \/ b.kind = "nan" THEN NaN
        ELSE IF a.kind = "inf" THEN (IF b.kind = "inf" THEN NaN ELSE Inf(s))
        ELSE IF b.kind = "inf" THEN Zero(s)
        ELSE IF b.m = <<>> THEN (IF a.m = <<>> THEN NaN ELSE Inf(s))
        ELSE RoundQ(s, a.m, b.m, a.e - b.e)

\* -1, 0, 1 as a < b, a = b, a > b, for a and b not nan
FCmp(a, b) ==
    LET \* the magnitudes compared
        Signed(cm) == IF a.s = 0 THEN cm ELSE -cm
    IN  IF a.kind = "num" /\ a.m = <<>> /\ b.kind = "num" /\ b.m = <<>> THEN 0
        ELSE IF a.s # b.s THEN (IF a.s = 1 THEN -1 ELSE 1)
        ELSE Signed(IF a.kind # b.kind THEN (IF b.kind = "inf" THEN -1 ELSE 1)
                    ELSE IF a.kind = "inf" THEN 0
                    ELSE IF a.e # b.e THEN (IF a.e < b.e THEN -1 ELSE 1)
                    ELSE BigCmp(a.m, b.m))

IsNumber(a) == a.kind \in {"num", "inf"}

FloatGE(a, b) == IsNumber(a) /\ IsNumber(b) /\ FCmp(a, b) >= 0

FloatGT(a, b) == IsNumber(a) /\ IsNumber(b) /\ FCmp(a, b) > 0

FloatLT(a, b) == IsNumber(a) /\ IsNumber(b) /\ FCmp(a, b) < 0

FloatLE(a, b) == IsNumber(a) /\ IsNumber(b) /\ FCmp(a, b) <= 0

FloatEQ(a, b) == IsNumber(a) /\ IsNumber(b) /\ FCmp(a, b) = 0

\* float(n) of an int n
IntToFloat(n) ==
    RoundTo(Binary64, IF n < 0 THEN 1 ELSE 0, Big(IF n < 0 THEN -n ELSE n), 0, FALSE)

\* int(x) of a finite float x: the integer part
Trunc(x) ==
    (IF x.s = 1 THEN -1 ELSE 1)
        * Small(IF x.e >= 0 THEN Shl(x.m, x.e) ELSE Shr(x.m, -x.e))

\* the float32 nearest to x, as torch.tensor(..., dtype=torch.float) stores it
ToFloat32(x) ==
    IF x.kind # "num" THEN x ELSE RoundTo(Binary32, x.s, x.m, x.e, FALSE)

\* float(n) of an int n of any size, given as its sign and its magnitude
BigToFloat(s, n) == RoundTo(Binary64, s, n, 0, FALSE)

\* floor(sqrt(n)), bit by bit from the highest: the bits hi..lo of the root
\* given the root r of the bits above, as [q, r] with q the bits set and r
\* the root down to lo
\* One bit of the root: the bit is 1 when c, the root r with that bit set,
\* has a square within n.
ISqrtBit(n, r, c, bit) ==
    IF BigCmp(BigMul(c, c), n) <= 0
    THEN [q |-> {bit}, r |-> c] ELSE [q |-> {}, r |-> r]

RECURSIVE ISqrtBits(_, _, _, _)
ISqrtBits(n, r, hi, lo) ==
    IF hi = lo THEN ISqrtBit(n, r, BigAdd(r, Shl(<<1>>, hi)), hi)
    ELSE LET high == ISqrtBits(n, r, hi, (hi + lo) \div 2 + 1)
             low == ISqrtBits(n, high.r, (hi + lo) \div 2, lo)
         IN  [q |-> high.q \cup low.q, r |-> low.r]

ISqrt(n) == ISqrtBits(n, <<>>, (BitLen(n) + 1) \div 2, 0).r

\* The root r of n = x.m * 2^(sh + x.e % 2), rounded
RootRounded(x, n, r, sh) ==
    RoundTo(Binary64, 0, r, (x.e - (x.e % 2) - sh) \div 2, BigMul(r, r) # n)

RootOf(x, n, sh) == RootRounded(x, n, ISqrt(n), sh)

RootShifted(x, sh) == RootOf(x, Shl(x.m, sh + (x.e % 2)), sh)

\* sqrt(x) of IEEE 754: the root of m * 2^e with e made even and m given
\* enough bits for the rounding
FSqrt(x) ==
    IF x.kind = "nan" THEN NaN
    ELSE IF x.kind = "num" /\ x.m = <<>> THEN x
    ELSE IF x.s = 1 THEN NaN
    ELSE IF x.kind = "inf" THEN x
    ELSE RootShifted(x, 2 * ((Max(112 - BitLen(x.m), 0) + 1) \div 2))

\* res + a[i] + a[i + step] + ... + a[j], added from left to right, for
\* j - i a multiple of step
RECURSIVE SumFrom(_, _, _, _, _)
SumFrom(a, i, j, step, res) ==
    IF i > j THEN res ELSE FAdd(SumFrom(a, i, j - step, step, res), a[j])

\* (r[i] + ... ) + ( ... + r[j]): the two halves of r[i..j] added, each
\* half summed the same way
RECURSIVE TreeSum(_, _, _)
TreeSum(r, i, j) ==
    IF i = j THEN r[i]
    ELSE FAdd(TreeSum(r, i, (i + j) \div 2), TreeSum(r, (i + j) \div 2 + 1, j))

\* numpy's sum of an array of doubles (pairwise_sum): fewer than 8 numbers
\* are added in order; up to 128 are added in 8 lanes, the lanes pairwise,
\* then the rest in order; more are split in two halves.
RECURSIVE PairwiseSum(_)
PairwiseSum(a) ==
    LET n == Len(a)
        full == n - (n % 8)
        half == (n \div 2) - ((n \div 2) % 8)
    IN  IF n <= 128
        THEN SumFrom(a, IF n < 8 THEN 1 ELSE full + 1, n, 1,
                     IF n < 8 THEN Zero(0)
                     ELSE TreeSum([j \in 1..8 |->
                                      SumFrom(a, j + 8, full - 8 + j, 8, a[j])],
                                  1, 8))
        ELSE FAdd(PairwiseSum(SubSeq(a, 1, half)),
                  PairwiseSum(SubSeq(a, half + 1, n)))

\* np.mean, np.var and np.std of a list of doubles
NpMean(a) == FDiv(PairwiseSum(a), IntToFloat(Len(a)))

FSquare(d) == FMul(d, d)

\* The squares of the deviations of a from arrmean
Deviations(a, arrmean) == [i \in 1..Len(a) |-> FSquare(FSub(a[i], arrmean))]

NpVar(a) == NpMean(Deviations(a, NpMean(a)))

NpStd(a) == FSqrt(NpVar(a))

-----------------------------------------------------------------------------
(* float(str) and int(str) *)

Digits == "0123456789"

IsDigit(c) == c \in {"0", "1", "2", "3", "4", "5", "6", "7", "8", "9"}

DigitVal(c) == Find(Digits, c) - 1

AllDigits(s) == \A i \in 1..Len(s) : IsDigit(Ch(s, i))

\* Value of a short string of digits (0 for the empty string).
RECURSIVE DigitsVal(_)
DigitsVal(s) ==
    IF Len(s) = 0 THEN 0
    ELSE 10 * DigitsVal(SubSeq(s, 1, Len(s) - 1)) + DigitVal(Ch(s, Len(s)))

\* the number of digits of s from position i on
DigitRun(s, i) ==
    LET stop == {j \in i..Len(s) : ~IsDigit(Ch(s, j))}
    IN  IF stop = {} THEN Max(Len(s) - i + 1, 0) ELSE MinOf(stop) - i

\* ds without its leading zeros
StripZeros(ds) ==
    LET nz == {i \in 1..Len(ds) : Ch(ds, i) # "0"}
    IN  IF nz = {} THEN "" ELSE SubSeq(ds, MinOf(nz), Len(ds))

\* the number written by the digits ds
RECURSIVE DigitsBig(_)
DigitsBig(ds) ==
    IF Len(ds) <= 4 THEN Big(DigitsVal(ds))
    ELSE LET h == Len(ds) \div 2
         IN  BigAdd(BigMul(DigitsBig(SubSeq(ds, 1, h)),
                           Shl(Pow5(Len(ds) - h), Len(ds) - h)),
                    DigitsBig(SubSeq(ds, h + 1, Len(ds))))

\* the exponent written by the digits ds, 10^7 for anything beyond
ExpOf(z) == IF Len(z) > 7 THEN 10000000 ELSE Small(DigitsBig(z))

ExpVal(ds) == ExpOf(StripZeros(ds))

UpperCase == "ABCDEFGHIJKLMNOPQRSTUVWXYZ"

LowerCase == "abcdefghijklmnopqrstuvwxyz"

\* str.lower() for the letters A to Z
RECURSIVE Lower(_)
Lower(s) ==
    IF Len(s) = 0 THEN ""
    ELSE IF Len(s) = 1
    THEN (IF Find(UpperCase, s) = 0 THEN s ELSE Ch(LowerCase, Find(UpperCase, s)))
    ELSE Lower(SubSeq(s, 1, Len(s) \div 2))
             \o Lower(SubSeq(s, Len(s) \div 2 + 1, Len(s)))

\* An underscore stands between two digits.
UnderscoresOk(s) ==
    \A i \in 1..Len(s) :
        Ch(s, i) = "_" =>
            /\ i > 1 /\ IsDigit(Ch(s, i - 1))
            /\ i < Len(s) /\ IsDigit(Ch(s, i + 1))

RECURSIVE DropUnderscores(_)
DropUnderscores(s) ==
    IF Len(s) = 0 THEN ""
    ELSE IF Len(s) = 1 THEN (IF s = "_" THEN "" ELSE s)
    ELSE DropUnderscores(SubSeq(s, 1, Len(s) \div 2))
             \o DropUnderscores(SubSeq(s, Len(s) \div 2 + 1, Len(s)))

\* z * 10^e10 for digits z without leading zeros:
\* z * 10^e10 = (z * 5^e10) * 2^e10, or (z / 5^-e10) * 2^e10
DecimalOf(s, z, e10) ==
    IF z = "" THEN Zero(s)
    ELSE IF Len(z) + e10 > 310 THEN Inf(s)
    ELSE IF Len(z) + e10 < -330 THEN Zero(s)
    ELSE RoundQ(s, BigMul(DigitsBig(z), Pow5(Max(e10, 0))),
                Pow5(Max(-e10, 0)), e10)

\* digits * 10^e10 rounded to the nearest double
Decimal(s, ds, e10) == DecimalOf(s, StripZeros(ds), e10)

\* The text t after the sign: inf, infinity or nan in any case of the
\* letters, or digits with an optional point and an optional exponent.
\* The digits of t with an optional point and an optional exponent: ni
\* digits, a point, nf digits; the mantissa ends at m; an exponent follows
\* if hasE, with a sign if esign, and ne digits from estart on.
Number(s, t, ni, nf, m, hasE, estart, ne) ==
    IF ni + nf = 0 THEN ValueError
    ELSE IF hasE /\ (ne = 0 \/ estart + ne - 1 # Len(t)) THEN ValueError
    ELSE IF ~hasE /\ m # Len(t) THEN ValueError
    ELSE Decimal(s, SubSeq(t, 1, ni) \o SubSeq(t, ni + 2, ni + 1 + nf),
                 (IF ~hasE THEN 0
                  ELSE (IF Ch(t, estart - 1) = "-" THEN -1 ELSE 1)
                          * ExpVal(SubSeq(t, estart, Len(t))))
                     - nf)

Exponent(s, t, ni, nf, m, hasE, estart) ==
    Number(s, t, ni, nf, m, hasE, estart,
           IF hasE THEN DigitRun(t, estart) ELSE 0)

ExponentSign(s, t, ni, nf, m, hasE, esign) ==
    Exponent(s, t, ni, nf, m, hasE, m + 2 + (IF esign THEN 1 ELSE 0))

ExponentMark(s, t, ni, nf, m, hasE) ==
    ExponentSign(s, t, ni, nf, m, hasE,
                 hasE /\ m + 1 < Len(t) /\ Ch(t, m + 2) \in {"+", "-"})

Mantissa(s, t, ni, nf, m) ==
    ExponentMark(s, t, ni, nf, m, m < Len(t) /\ Ch(t, m + 1) \in {"e", "E"})

Fraction(s, t, ni, dot, nf) ==
    Mantissa(s, t, ni, nf, ni + (IF dot THEN 1 ELSE 0) + nf)

Point(s, t, ni, dot) ==
    Fraction(s, t, ni, dot, IF dot THEN DigitRun(t, ni + 2) ELSE 0)

Integer(s, t, ni) == Point(s, t, ni, ni < Len(t) /\ Ch(t, ni + 1) = ".")

Named(s, t, low) ==
    IF low \in {"inf", "infinity"} THEN Inf(s)
    ELSE IF low = "nan" THEN NaN
    ELSE Integer(s, t, DigitRun(t, 1))

Unsigned(s, t) == Named(s, t, Lower(t))

\* The text d without underscores, with a sign first if signed
FloatText(d, signed) ==
    Unsigned(IF signed /\ Ch(d, 1) = "-" THEN 1 ELSE 0,
             IF signed THEN SubSeq(d, 2, Len(d)) ELSE d)

FloatPlain(d) == FloatText(d, d # "" /\ Ch(d, 1) \in {"+", "-"})

FloatStripped(t) ==
    IF ~UnderscoresOk(t) THEN ValueError ELSE FloatPlain(DropUnderscores(t))

\* float(str) of Python: whitespace around the text is dropped, an
\* underscore may stand between two digits, a sign may come first.  The
\* result is the double nearest to the decimal number, an infinity when it
\* is too large, and ValueError for any other text.
PyFloat(str) == FloatStripped(NumberStrip(str))

\* An int of Python: its sign and its magnitude.  ok is false for the
\* ValueError of a conversion.
IntOf(s, n) == [ok |-> TRUE, s |-> IF n = <<>> THEN 0 ELSE s, n |-> n]

IntValueError == [ok |-> FALSE, s |-> 0, n |-> <<>>]

\* The digits ds after the sign s.  CPython 3.11 and later raise ValueError
\* for more than sys.get_int_max_str_digits() = 4300 digits, leading zeros
\* counted.
IntDigits(s, ds) ==
    IF ds = "" \/ ~AllDigits(ds) \/ Len(ds) > 4300 THEN IntValueError
    ELSE IntOf(s, DigitsBig(ds))

\* The text d without underscores, with a sign first if signed
IntText(d, signed) ==
    IntDigits(IF signed /\ Ch(d, 1) = "-" THEN 1 ELSE 0,
              IF signed THEN SubSeq(d, 2, Len(d)) ELSE d)

IntPlain(d) == IntText(d, d # "" /\ Ch(d, 1) \in {"+", "-"})

IntStripped(t) ==
    IF ~UnderscoresOk(t) THEN IntValueError ELSE IntPlain(DropUnderscores(t))

\* int(str) of Python: whitespace around the text is dropped, a sign may
\* come first, then digits, where an underscore may stand between two.
PyInt(str) == IntStripped(NumberStrip(str))

\* a < b and b - a on ints
IntLess(a, b) ==
    IF a.s # b.s THEN a.s = 1
    ELSE IF a.s = 0 THEN BigCmp(a.n, b.n) < 0
    ELSE BigCmp(a.n, b.n) > 0

\* b - a, where c compares the magnitudes of b and a
IntSubOf(b, a, c) ==
    IntOf(IF a.s # b.s \/ c >= 0 THEN b.s ELSE 1 - b.s,
          IF a.s # b.s THEN BigAdd(a.n, b.n)
          ELSE IF c >= 0 THEN BigSub(b.n, a.n) ELSE BigSub(a.n, b.n))

IntSub(b, a) == IntSubOf(b, a, BigCmp(b.n, a.n))

-----------------------------------------------------------------------------
(* numpy's legacy generator: MT19937 *)

\* A 32-bit word is the pair <<high 16 bits, low 16 bits>>.
Half == 65536

RECURSIVE Xor16(_, _)
Xor16(a, b) ==
    IF a = 0 THEN b
    ELSE IF b = 0 THEN a
    ELSE 2 * Xor16(a \div 2, b \div 2) + ((a + b) % 2)

RECURSIVE And16(_, _)
And16(a, b) ==
    IF a = 0 \/ b = 0 THEN 0
    ELSE 2 * And16(a \div 2, b \div 2) + (a % 2) * (b % 2)

\* a ^ b and a & b for every a, b < 16: the entry of index 16 * a + b + 1
XorTable == [i \in 1..256 |-> Xor16((i - 1) \div 16, (i - 1) % 16)] \o <<>>

AndTable == [i \in 1..256 |-> And16((i - 1) \div 16, (i - 1) % 16)] \o <<>>

\* The operation of a table on a, b < 2^16, four bits at a time
Nibbles(t, a, b) ==
    t[(a \div 4096) * 16 + (b \div 4096) + 1] * 4096
      + t[((a \div 256) % 16) * 16 + ((b \div 256) % 16) + 1] * 256
      + t[((a \div 16) % 16) * 16 + ((b \div 16) % 16) + 1] * 16
      + t[(a % 16) * 16 + (b % 16) + 1]

Xor32(x, y) == <<Nibbles(XorTable, x[1], y[1]), Nibbles(XorTable, x[2], y[2])>>

And32(x, y) == <<Nibbles(AndTable, x[1], y[1]), Nibbles(AndTable, x[2], y[2])>>

\* x >> n and x << n for 0 < n < 32
Shr32(x, n) ==
    IF n >= 16 THEN <<0, x[1] \div Pow2(n - 16)>>
    ELSE <<x[1] \div Pow2(n), (x[2] \div Pow2(n)) + (x[1] % Pow2(n)) * Pow2(16 - n)>>

Shl32(x, n) ==
    IF n >= 16 THEN <<(x[2] * Pow2(n - 16)) % Half, 0>>
    ELSE <<((x[1] * Pow2(n)) % Half) + (x[2] \div Pow2(16 - n)), (x[2] * Pow2(n)) % Half>>

\* the low 16 bits of a * b for a, b < 2^16
MulLow16(a, b) == ((a % 256) * b + (((a \div 256) * b) % 256) * 256) % Half

\* a * b for a, b < 2^16
Mul16(a, b) ==
    LET Of(t1, low) == <<(t1 \div 256) + (low \div Half), low % Half>>
    IN  Of((a \div 256) * b, (a % 256) * b + (((a \div 256) * b) % 256) * 256)

\* x * y mod 2^32
Mul32(x, y) ==
    LET Of(p) ==
            <<(p[1] + MulLow16(x[1], y[2]) + MulLow16(x[2], y[1])) % Half, p[2]>>
    IN  Of(Mul16(x[2], y[2]))

\* x + i mod 2^32 for 0 <= i < 2^16
Add32(x, i) == <<(x[1] + ((x[2] + i) \div Half)) % Half, (x[2] + i) % Half>>

Word(n) == <<n \div Half, n % Half>>

\* init_genrand: mt[i] = 1812433253 * (mt[i-1] ^ (mt[i-1] >> 30)) + i
InitNext(prev, i) == Add32(Mul32(<<27655, 35173>>, Xor32(prev, Shr32(prev, 30))), i)

\* the n words after the word prev of index i - 1: the first half of them,
\* then the words after the last of these
RECURSIVE InitRun(_, _, _)
InitRun(prev, i, n) ==
    IF n = 0 THEN <<>>
    ELSE IF n = 1 THEN <<InitNext(prev, i)>>
    ELSE LET After(run) ==
                 run \o InitRun(run[Len(run)], i + Len(run), n - Len(run))
         IN  After(InitRun(prev, i, n \div 2))

\* the state after np.random.seed(seed): mt[0..623] as a sequence of 624
InitGenrand(seed) == <<Word(seed)>> \o InitRun(Word(seed), 1, 623)

\* one word of the next state from mt[kk], mt[kk+1] and mt[kk+397]
Twist(cur, nxt, far) ==
    LET Mixed(y) ==
            Xor32(Xor32(far, Shr32(y, 1)),
                  IF y[2] % 2 = 1 THEN <<39176, 45279>> ELSE <<0, 0>>)
    IN  Mixed(<<Nibbles(AndTable, cur[1], 32768) + Nibbles(AndTable, nxt[1], 32767),
                nxt[2]>>)

\* the state after the generation of the next 624 words; each word is made
\* from words of the old state and from new words of lower index
\* The new words of index from..to (from 1), the kk-th of them made with
\* far[kk]
GenrandPart(mt, from, to, far) ==
    [kk \in 1..(to - from + 1) |->
        Twist(mt[from + kk - 1], mt[from + kk], far[kk])]

\* The new words 1..227 are a, 228..454 are b and 455..623 are c.
GenrandLast(mt, a, b, c) == a \o b \o c \o <<Twist(mt[624], a[1], b[170])>>

GenrandThird(mt, a, b) == GenrandLast(mt, a, b, GenrandPart(mt, 455, 623, b))

GenrandSecond(mt, a) == GenrandThird(mt, a, GenrandPart(mt, 228, 454, a))

Genrand(mt) == GenrandSecond(mt, GenrandPart(mt, 1, 227, SubSeq(mt, 398, 624)))

\* y ^ ((y << n) & mask)
TemperLeft(y, n, mask) == Xor32(y, And32(Shl32(y, n), mask))

\* y ^ (y >> n)
TemperRight(y, n) == Xor32(y, Shr32(y, n))

Temper(w) ==
    TemperRight(TemperLeft(TemperLeft(TemperRight(w, 11), 7, <<40236, 22144>>),
                           15, <<61382, 0>>), 18)

\* the first 624 * blocks words that the generator gives after seed(seed)
RECURSIVE Blocks(_, _)

\* The words of the state mt, and those of the blocks after it
Tempered(mt, blocks) ==
    [i \in 1..624 |-> Temper(mt[i])] \o Blocks(mt, blocks - 1)

Blocks(mt, blocks) ==
    IF blocks = 0 THEN <<>> ELSE Tempered(Genrand(mt), blocks)

Mt19937(seed, blocks) == Blocks(InitGenrand(seed), blocks)

-----------------------------------------------------------------------------
(* numpy's global generator *)

\* The state of the generator: the seed it was last given and the number of
\* words drawn since.
Seeded(s) == [seed |-> s, pos |-> 0]

\* A process starts with a state taken from the operating system.  No
\* pipeline draws before it has seeded the generator; the state is held as
\* that of seed 0.
Unseeded == Seeded(0)

\* A np.random.seed call that leaves the generator where it is.
NpRandomSeedSkipped(s) == rng

\* np.random.seed(s): the state of the global generator after the call.
NpRandomSeed(s) == Seeded(s)

\* The first words after the seed the pipelines use, and after the seed a
\* process that has not seeded is held at.
Streams == (0 :> Mt19937(0, 13)) @@ (42 :> Mt19937(42, 10))

\* The first 624 * blocks words after seed(seed)
Words(seed, blocks) ==
    IF seed \in DOMAIN Streams /\ 624 * blocks <= Len(Streams[seed])
    THEN Streams[seed]
    ELSE Mt19937(seed, blocks)

\* rk_random: the next word, and the generator after it
RkRandom(g) ==
    [v |-> Words(g.seed, (g.pos \div 624) + 1)[g.pos + 1],
     g |-> [g EXCEPT !.pos = @ + 1]]

\* rk_double: (a * 2^26 + b) / 2^53 with a the high 27 bits of one word and
\* b the high 26 bits of the next
DoubleOf(a, b) ==
    RoundTo(Binary64, 0, BigAdd(Shl(Big(a), 26), Big(b)), -53, FALSE)

\* The double of the draws w1 and w2
DoubleOfWords(w1, w2) ==
    [v |-> DoubleOf(w1.v[1] * 2048 + (w1.v[2] \div 32),
                    w2.v[1] * 1024 + (w2.v[2] \div 64)),
     g |-> w2.g]

DoubleAfter(w1) == DoubleOfWords(w1, RkRandom(w1.g))

RkDouble(g) == DoubleAfter(RkRandom(g))

\* np.random.random(n): n doubles in [0, 1)
RandomSample(g, n) ==
    [v |-> [i \in 1..n |-> RkDouble([g EXCEPT !.pos = @ + 2 * (i - 1)]).v],
     g |-> [g EXCEPT !.pos = @ + 2 * n]]

\* rk_interval(max): a number of 0..max, from the low bits of the next word
\* that give a number of that range
RECURSIVE RkInterval(_, _)
RkInterval(g, max) ==
    IF max = 0 THEN [v |-> 0, g |-> g]
    ELSE LET Masked(w, value) ==
                 IF value > max THEN RkInterval(w.g, max)
                 ELSE [v |-> value, g |-> w.g]
             Drawn(w, m) ==
                 Masked(w, IF m <= Half THEN w.v[2] % m
                           ELSE (w.v[1] % (m \div Half)) * Half + w.v[2])
             Next32(w) == Drawn(w, Pow2(Bits(max)))
         IN  Next32(RkRandom(g))

\* x[i], x[j] = x[j], x[i], indices from 1
Swap(x, i, j) == [x EXCEPT ![i] = x[j], ![j] = x[i]]

\* The turns i = hi down to lo of `for i in reversed(range(1, n)):
\* j = rk_interval(i); x[i], x[j] = x[j], x[i]`, as [js, v, g]: the j drawn,
\* the list and the generator after the turns
RECURSIVE ShuffleRange(_, _, _, _)
ShuffleRange(x, g, hi, lo) ==
    IF hi < lo THEN [js |-> <<>>, v |-> x, g |-> g]
    ELSE IF hi = lo
    THEN LET Turn(j) ==
                 [js |-> <<j.v>>, v |-> Swap(x, hi + 1, j.v + 1), g |-> j.g]
         IN  Turn(RkInterval(g, hi))
    ELSE LET high == ShuffleRange(x, g, hi, (hi + lo) \div 2 + 1)
             low == ShuffleRange(high.v, high.g, (hi + lo) \div 2, lo)
         IN  [js |-> high.js \o low.js, v |-> low.v, g |-> low.g]

\* list(x[lo - 1:hi]), positions from 1: the elements as a tuple
RECURSIVE ListRange(_, _, _)
ListRange(x, lo, hi) ==
    IF hi < lo THEN <<>>
    ELSE IF hi = lo THEN <<x[lo]>>
    ELSE ListRange(x, lo, (lo + hi) \div 2)
            \o ListRange(x, (lo + hi) \div 2 + 1, hi)

\* list(x[:n]): the first n elements as a tuple
ListOf(x, n) == ListRange(x, 1, n)

\* np.random.shuffle(x)
Shuffle(g, x) ==
    LET Shuffled(s) == [v |-> s.v, g |-> s.g]
    IN  Shuffled(ShuffleRange(ListOf(x, Len(x)), g, Len(x) - 1, 1))

\* np.arange(n)
Arange(n) == ListOf([i \in 1..n |-> i - 1], n)

\* np.random.permutation(n)
Permutation(g, n) == Shuffle(g, Arange(n))

\* np.random.choice(a, size=size, replace=False) with len(a) = n, as the
\* indices (from 0) of the elements drawn: permutation(n)[:size].  It raises
\* ValueError when size > n.
Choice(g, n, size) ==
    LET Prefix(p) == [v |-> ListOf(p.v, size), g |-> p.g]
    IN  Prefix(Permutation(g, n))

\* p.cumsum()
CumsumNext(c, x) == Append(c, FAdd(c[Len(c)], x))

RECURSIVE Cumsum(_)
Cumsum(p) ==
    IF Len(p) <= 1 THEN p
    ELSE CumsumNext(Cumsum(SubSeq(p, 1, Len(p) - 1)), p[Len(p)])

\* np.random.choice(len(p), size=n, p=p), as indices from 0:
\* cdf = p.cumsum(); cdf /= cdf[-1];
\* cdf.searchsorted(random_sample(n), side='right')
Searched(cdf, u) ==
    [v |-> [i \in 1..Len(u.v) |->
               Cardinality({j \in 1..Len(cdf) : FloatLE(cdf[j], u.v[i])})],
     g |-> u.g]

Normalised(c) == [i \in 1..Len(c) |-> FDiv(c[i], c[Len(c)])]

ChoiceP(g, p, n) == Searched(Normalised(Cumsum(p)), RandomSample(g, n))

\* np.random.uniform(low, high): low + (high - low) * rk_double
UniformOf(low, high, d) ==
    [v |-> FAdd(low, FMul(FSub(high, low), d.v)), g |-> d.g]

Uniform(g, low, high) == UniformOf(low, high, RkDouble(g))
-----------------------------------------------------------------------------
(* The reader loop shared by every pipeline *)

\* f"{chr}_{bp}"
Key(chr, bp) == chr \o "_" \o bp

\* The keys of the two variants of a row.
RowKeys(row) == {Key(row[1], row[2]), Key(row[4], row[5])}

KeysOf(rows) == UNION {RowKeys(rows[i]) : i \in 1..Len(rows)}

\* LineOk without the header test.
LineOkNoHeader(parts) == Len(parts) >= 7

\* len(parts) >= 7 and parts[6] != 'R2'
LineOk(parts) == Len(parts) >= 7 /\ parts[7] # "R2"

\* PassesR2 with > for >=.
PassesR2Strict(r2, thr) == r2.kind # "err" /\ FloatGT(r2, thr)

\* if r2 >= self.r2_threshold, for the r2 that float(parts[6]) gave; the
\* ValueError of float() skips the line
PassesR2(r2, thr) == r2.kind # "err" /\ FloatGE(r2, thr)

\* d.get(key, [])
Get(d, key) == IF key \in DOMAIN d THEN d[key] ELSE <<>>

\* d[key].append(v) on a defaultdict(list)
AppendTo(d, key, v) ==
    [x \in DOMAIN d \cup {key} |-> IF x = key THEN Append(Get(d, x), v) ELSE d[x]]

\* AddEdge without the second append.
AddEdgeOneWay(g, a, b, r) == AppendTo(g, a, <<b, r>>)

\* snp_neighbors[snp_a].append((snp_b, r2)); snp_neighbors[snp_b].append((snp_a, r2))
AddEdge(g, a, b, r) == AppendTo(AppendTo(g, a, <<b, r>>), b, <<a, r>>)

\* The body of `try` after r2 = float(parts[6])
KnnEdge(st, parts, r2, thr) ==
    IF PassesR2(r2, thr)
    THEN [g |-> AddEdge(st.g, Key(parts[1], parts[2]), Key(parts[4], parts[5]),
                        r2),
          u |-> st.u \cup {Key(parts[1], parts[2]), Key(parts[4], parts[5])}]
    ELSE st

\* The body of `for line in lines` after parts = line.strip().split()
KnnParts(st, parts, thr) ==
    IF LineOk(parts) THEN KnnEdge(st, parts, PyFloat(parts[7]), thr) ELSE st

\* KnnLine with unique_snps.update([snp_a]) for update([snp_a, snp_b]).
KnnLineSourceOnly(st, line, thr) ==
    LET parts == Split(Strip(line))
        r2 == PyFloat(parts[7])
    IN  IF LineOk(parts) /\ PassesR2(r2, thr)
        THEN LET a == Key(parts[1], parts[2])
                 b == Key(parts[4], parts[5])
             IN  [g |-> AddEdge(st.g, a, b, r2), u |-> st.u \cup {a}]
        ELSE st

\* The body of `for line in lines` of KNearestSNPMasking, on st = [g, u].
KnnLine(st, line, thr) == KnnParts(st, Split(Strip(line)), thr)

RECURSIVE KnnLines(_, _, _)
KnnLines(st, ls, thr) ==
    IF ls = <<>> THEN st
    ELSE KnnLines(KnnLine(st, Head(ls), thr), Tail(ls), thr)

\* Where each pipeline goes when the reader loop breaks.
AfterRead(s) ==
    CASE s = "knn" -> "sort"
      [] s = "col" -> "select"
      [] s = "rand" -> "generate"
      [] s = "row" -> "simulate"
      [] s = "maf" -> "loaded"
      [] s = "loader" -> "loaded"

\* lines = []; for _ in range(batch_size): line = f.readline(); if not
\* line: break; lines.append(line) ... if not lines: break
ReadBatch ==
    /\ pc = "read"
    /\ LET got == SubSeq(file, pos + 1, Min(pos + batch_size, Len(file)))
       IN  /\ lines' = got
           /\ pos' = pos + Len(got)
           /\ pc' = IF got = <<>> THEN AfterRead(strategy) ELSE "process"
    /\ UNCHANGED <<libm, mafVars, graphVars, rowVars,
                   strategy, file, batch_size, r2_threshold, k, missing_rate,
                   snp_neighbors, unique_snps, chunks, snp_list, seed_snps,
                   masked_snps, mask_sets, stage2, masked_indices, mask_df,
                   rng, runs, first_out>>

\* for line in lines: ... of KNearestSNPMasking.create_mask_from_ld
KnnProcessBatch ==
    /\ pc = "process" /\ strategy = "knn"
    /\ LET Store(st) == snp_neighbors' = st.g /\ unique_snps' = st.u
       IN  Store(KnnLines([g |-> snp_neighbors, u |-> unique_snps], lines,
                          r2_threshold))
    /\ pc' = "read"
    /\ UNCHANGED <<libm, mafVars, graphVars, rowVars,
                   strategy, file, pos, batch_size, lines, r2_threshold, k,
                   missing_rate, chunks, snp_list, seed_snps, masked_snps,
                   mask_sets, stage2, masked_indices, mask_df, rng,
                   runs, first_out>>

\* The body of `for line in lines` of ColumnwiseMissingness ("col"),
\* RandomMasking ("rand") and RowwiseMissingness ("row"), on the set of keys.
KeysParts(u, parts) ==
    IF LineOk(parts)
    THEN u \cup {Key(parts[1], parts[2]), Key(parts[4], parts[5])}
    ELSE u

KeysLine(u, line) == KeysParts(u, Split(Strip(line)))

RECURSIVE KeysLines(_, _)
KeysLines(u, ls) ==
    IF ls = <<>> THEN u ELSE KeysLines(KeysLine(u, Head(ls)), Tail(ls))

\* for line in lines: ... of the three pipelines that only collect keys
KeysProcessBatch ==
    /\ pc = "process" /\ strategy \in {"col", "rand", "row"}
    /\ unique_snps' = KeysLines(unique_snps, lines)
    /\ pc' = "read"
    /\ UNCHANGED <<libm, mafVars, graphVars, rowVars,
                   strategy, file, pos, batch_size, lines, r2_threshold, k,
                   missing_rate, snp_neighbors, chunks, snp_list, seed_snps,
                   masked_snps, mask_sets, stage2, masked_indices, mask_df,
                   rng, runs, first_out>>

\* parts[:7]
Row(parts) == SubSeq(parts, 1, 7)

\* batch_data of LDGraphBuilder.load_ld_data: the rows of the batch that
\* pass the line filter.
\* The row of a line, if the line gives one
LoaderParts(parts) == IF LineOk(parts) THEN <<Row(parts)>> ELSE <<>>

RECURSIVE LoaderRows(_)
LoaderRows(ls) ==
    IF ls = <<>> THEN <<>>
    ELSE LoaderParts(Split(Strip(Head(ls)))) \o LoaderRows(Tail(ls))

\* The columns of a frame of LD rows.
Schema == <<"CHR_A", "BP_A", "SNP_A", "CHR_B", "BP_B", "SNP_B", "R2">>

\* pl.DataFrame(batch_data, schema=[...]) is called without orient, and
\* polars infers it: the lists are rows when their length is the number of
\* columns and the number of lists is not; when the data are square the
\* inference is not conclusive and the lists are taken as columns (releases
\* that infer rows from the length of the first list alone take them as
\* rows).
OrientationsOf(data, schema) ==
    IF Len(data) = Len(schema) THEN {"row", "col"} ELSE {"row"}

Orientations(batch_data) == OrientationsOf(batch_data, Schema)

\* The lists of square data read as columns: row i of the frame holds the
\* i-th field of every list.
Transpose(batch_data) ==
    [i \in 1..Len(Schema) |-> [j \in 1..Len(batch_data) |-> batch_data[j][i]]]

\* The rows of pl.DataFrame(batch_data, schema=[...]) under an orientation.
DataFrame(batch_data, orient) ==
    IF orient = "col" THEN Transpose(batch_data) ELSE batch_data

\* if batch_data: chunks.append(pl.DataFrame(batch_data, ...))
AppendFrame(cs, batch_data) ==
    IF batch_data = <<>> THEN cs ELSE Append(cs, batch_data)

\* pl.concat(chunks) if chunks else pl.DataFrame(), as the list of rows
RECURSIVE Concat(_)
Concat(cs) == IF cs = <<>> THEN <<>> ELSE Head(cs) \o Concat(Tail(cs))

\* batch_data = [...]; if batch_data: chunks.append(...) of load_ld_data
LoaderProcessBatch ==
    /\ pc = "process" /\ strategy = "loader"
    /\ LET Frame(batch_data) ==
               \E orient \in Orientations(batch_data) :
                  chunks' = AppendFrame(chunks, DataFrame(batch_data, orient))
       IN  Frame(LoaderRows(lines))
    /\ pc' = "read"
    /\ UNCHANGED <<libm, mafVars, graphVars, rowVars,
                   strategy, file, pos, batch_size, lines, r2_threshold, k,
                   missing_rate, snp_neighbors, unique_snps, snp_list,
                   seed_snps, masked_snps, mask_sets, stage2, masked_indices,
                   mask_df, rng, runs, first_out>>

\* The body of `for line in lines` of MAFClusterMasking, on
\* st = [rows, u]: rows is batch_data.
\* The body of `try` after r2_val = float(parts[6])
MafEdge(st, parts, r2_val, thr) ==
    IF PassesR2(r2_val, thr)
    THEN [rows |-> Append(st.rows, Row(parts)),
          u |-> st.u \cup {Key(parts[1], parts[2]), Key(parts[4], parts[5])}]
    ELSE st

MafParts(st, parts, thr) ==
    IF LineOk(parts) THEN MafEdge(st, parts, PyFloat(parts[7]), thr) ELSE st

MafLine(st, line, thr) == MafParts(st, Split(Strip(line)), thr)

RECURSIVE MafLines(_, _, _)
MafLines(st, ls, thr) ==
    IF ls = <<>> THEN st
    ELSE MafLines(MafLine(st, Head(ls), thr), Tail(ls), thr)

\* batch_data = []; for line in lines: ...; if batch_data:
\* ld_chunks.append(...) of MAFClusterMasking.create_mask_from_ld
MafProcessBatch ==
    /\ pc = "process" /\ strategy = "maf"
    /\ LET Store(st) ==
               /\ \E orient \in Orientations(st.rows) :
                     chunks' = AppendFrame(chunks, DataFrame(st.rows, orient))
               /\ unique_snps' = st.u
       IN  Store(MafLines([rows |-> <<>>, u |-> unique_snps], lines,
                          r2_threshold))
    /\ pc' = "read"
    /\ UNCHANGED <<libm, mafVars, graphVars, rowVars,
                   strategy, file, pos, batch_size, lines, r2_threshold, k,
                   missing_rate, snp_neighbors, snp_list, seed_snps,
                   masked_snps, mask_sets, stage2, masked_indices, mask_df,
                   rng, runs, first_out>>

-----------------------------------------------------------------------------
(* KNearestSNPMasking.create_mask_from_ld after the read *)

\* list.sort(key=lambda x: x[1], reverse=True): descending by r2, and
\* entries with equal keys keep their order.
RECURSIVE InsertDesc(_, _)
InsertDesc(sorted, e) ==
    IF sorted = <<>> THEN <<e>>
    ELSE IF FloatGE(Head(sorted)[2], e[2])
         THEN <<Head(sorted)>> \o InsertDesc(Tail(sorted), e)
         ELSE <<e>> \o sorted

RECURSIVE SortDescFrom(_, _)
SortDescFrom(acc, rest) ==
    IF rest = <<>> THEN acc
    ELSE SortDescFrom(InsertDesc(acc, Head(rest)), Tail(rest))

\* A descending sort that puts an entry before the entries of equal r2.
RECURSIVE InsertDescFirst(_, _)
InsertDescFirst(sorted, e) ==
    IF sorted = <<>> THEN <<e>>
    ELSE IF FloatGT(Head(sorted)[2], e[2])
         THEN <<Head(sorted)>> \o InsertDescFirst(Tail(sorted), e)
         ELSE <<e>> \o sorted

RECURSIVE SortUnstableFrom(_, _)
SortUnstableFrom(acc, rest) ==
    IF rest = <<>> THEN acc
    ELSE SortUnstableFrom(InsertDescFirst(acc, Head(rest)), Tail(rest))

SortNeighborsUnstable(l) == SortUnstableFrom(<<>>, l)

SortNeighbors(l) == SortDescFrom(<<>>, l)

\* int(len(snp_list) * self.missing_rate): the product of float(n) and the
\* rate rounded to a double, then cut to its integer part
NSeeds(n, rate) == Trunc(FMul(IntToFloat(n), rate))

\* neighbors[:self.k]
KNearest(neighbors, kk) == SubSeq(neighbors, 1, Min(kk, Len(neighbors)))

\* The keys masked for one seed: the seed and its k nearest neighbors.
MaskedFor(g, seed, kk) ==
    LET near == KNearest(Get(g, seed), kk)
    IN  {seed} \cup {near[i][1] : i \in 1..Len(near)}

\* for snp in snp_neighbors: snp_neighbors[snp].sort(...);
\* snp_list = sorted(list(unique_snps))
KnnSort ==
    /\ pc = "sort" /\ strategy = "knn"
    /\ snp_neighbors' =
           [x \in DOMAIN snp_neighbors |-> SortNeighbors(snp_neighbors[x])]
    /\ snp_list' = Sorted(unique_snps)
    /\ pc' = "select"
    /\ UNCHANGED <<libm, mafVars, graphVars, rowVars,
                   strategy, file, pos, batch_size, lines, r2_threshold, k,
                   missing_rate, unique_snps, chunks, seed_snps, masked_snps,
                   mask_sets, stage2, masked_indices, mask_df, rng,
                   runs, first_out>>

\* n_seeds = int(...); np.random.seed(42);
\* seed_snps = np.random.choice(snp_list, size=n_seeds, replace=False)
KnnSelectSeeds ==
    /\ pc = "select" /\ strategy = "knn"
    /\ LET n == Len(snp_list)
           n_seeds == NSeeds(n, missing_rate)
           o == Choice(NpRandomSeed(42), n, n_seeds)
       IN  /\ seed_snps' = [i \in 1..n_seeds |-> snp_list[o.v[i] + 1]]
           /\ rng' = o.g
    /\ pc' = "mask"
    /\ UNCHANGED <<libm, mafVars, graphVars, rowVars,
                   strategy, file, pos, batch_size, lines, r2_threshold, k,
                   missing_rate, snp_neighbors, unique_snps, chunks, snp_list,
                   masked_snps, mask_sets, stage2, masked_indices, mask_df,
                   runs, first_out>>

\* for seed_snp in seed_snps: masked_snps.add(seed_snp); ... add its k nearest
KnnMask ==
    /\ pc = "mask" /\ strategy = "knn"
    /\ masked_snps' =
           UNION {MaskedFor(snp_neighbors, seed_snps[i], k) :
                      i \in 1..Len(seed_snps)}
    /\ pc' = "table"
    /\ UNCHANGED <<libm, mafVars, graphVars, rowVars,
                   strategy, file, pos, batch_size, lines, r2_threshold, k,
                   missing_rate, snp_neighbors, unique_snps, chunks, snp_list,
                   seed_snps, mask_sets, stage2, masked_indices, mask_df, rng, runs, first_out>>

\* x in seq, for a list or a numpy array
InSeq(x, s) == \E i \in 1..Len(s) : s[i] = x

\* One row of the k-nearest table: CHR, POS, SNP_ID, MASKED, IS_SEED,
\* N_NEIGHBORS.
KnnRow(snp, masked, seeds, g) ==
    LET chr_pos == SplitOn(snp, "_")
    IN  <<chr_pos[1], chr_pos[2], snp, snp \in masked, InSeq(snp, seeds),
          Len(Get(g, snp))>>

KnnSchema == <<"CHR", "POS", "SNP_ID", "MASKED", "IS_SEED", "N_NEIGHBORS">>

\* mask_data = [...]; mask_df = pl.DataFrame(mask_data, ...); return mask_df
KnnCreateMask ==
    /\ pc = "table" /\ strategy = "knn"
    /\ LET mask_data == [i \in 1..Len(snp_list) |->
               KnnRow(snp_list[i], masked_snps, seed_snps, snp_neighbors)]
       IN  \E orient \in OrientationsOf(mask_data, KnnSchema) :
              \* lists of strings, booleans and an int taken as columns:
              \* pl.DataFrame raises TypeError
              IF orient = "col" THEN mask_df' = mask_df /\ pc' = "raised"
              \* print(f"Masking rate: {len(masked_snps)/len(snp_list)*100:.1f}%")
              \* raises ZeroDivisionError, after the table is written, when
              \* there is no variant
              ELSE /\ mask_df' = mask_data
                   /\ pc' = IF Len(snp_list) = 0 THEN "raised" ELSE "done"
    /\ runs' = runs + 1
    /\ UNCHANGED <<libm, mafVars, graphVars, rowVars,
                   strategy, file, pos, batch_size, lines, r2_threshold, k,
                   missing_rate, snp_neighbors, unique_snps, chunks, snp_list,
                   seed_snps, masked_snps, mask_sets, stage2, masked_indices,
                   rng, first_out>>

-----------------------------------------------------------------------------
(* ColumnwiseMissingness.create_mask_from_ld after the read *)

\* int(len(snp_list) * self.missing_rate): the product of float(n) and the
\* rate rounded to a double, then cut to its integer part
NMask(n, rate) == Trunc(FMul(IntToFloat(n), rate))

\* snp_list = sorted(list(unique_snps)); n_mask = int(...);
\* np.random.seed(42);
\* masked_snps = np.random.choice(snp_list, size=n_mask, replace=False)
ColSelect ==
    /\ pc = "select" /\ strategy = "col"
    /\ snp_list' = Sorted(unique_snps)
    /\ LET n == Cardinality(unique_snps)
           n_mask == NMask(n, missing_rate)
           o == Choice(NpRandomSeed(42), n, n_mask)
       IN  /\ masked_snps' = [i \in 1..n_mask |-> snp_list'[o.v[i] + 1]]
           /\ rng' = o.g
    /\ pc' = "table"
    /\ UNCHANGED <<libm, mafVars, graphVars, rowVars,
                   strategy, file, pos, batch_size, lines, r2_threshold, k,
                   missing_rate, snp_neighbors, unique_snps, chunks, seed_snps,
                   mask_sets, stage2, masked_indices, mask_df, runs, first_out>>

\* One row of the column-wise table: CHR, POS, SNP_ID, MASKED.
ColRow(snp, masked) ==
    LET chr_pos == SplitOn(snp, "_")
    IN  <<chr_pos[1], chr_pos[2], snp, InSeq(snp, masked)>>

ColSchema == <<"CHR", "POS", "SNP_ID", "MASKED">>

\* mask_data after the loop over snp_list
ColMaskData(snps, masked) == [i \in 1..Len(snps) |-> ColRow(snps[i], masked)]

\* mask_data = [...]; mask_df = pl.DataFrame(mask_data, ...); return mask_df
ColCreateMask ==
    /\ pc = "table" /\ strategy = "col"
    /\ LET mask_data == ColMaskData(snp_list, masked_snps)
       IN  \E orient \in OrientationsOf(mask_data, ColSchema) :
              \* lists of strings and a boolean taken as columns:
              \* pl.DataFrame raises TypeError
              IF orient = "col" THEN mask_df' = mask_df /\ pc' = "raised"
              ELSE mask_df' = mask_data /\ pc' = "done"
    /\ runs' = runs + 1
    /\ UNCHANGED <<libm, mafVars, graphVars, rowVars,
                   strategy, file, pos, batch_size, lines, r2_threshold, k,
                   missing_rate, snp_neighbors, unique_snps, chunks, snp_list,
                   seed_snps, masked_snps, mask_sets, stage2, masked_indices,
                   rng, first_out>>

-----------------------------------------------------------------------------
(* RandomMasking *)

\* RandomMasking(seed=42)
RandSeed == 42

\* mask_sets.append(mask_set), for the sets drawn after this one
WithMaskSet(o, rest) == [v |-> <<o.v>> \o rest.v, g |-> rest.g]

RECURSIVE MaskSets(_, _, _)

MaskSetsAfter(o, n_snps, stages) ==
    WithMaskSet(o, MaskSets(o.g, n_snps, stages - 1))

\* for i in range(stages): mask_set = np.random.random(n_snps)
MaskSets(g, n_snps, stages) ==
    IF stages = 0 THEN [v |-> <<>>, g |-> g]
    ELSE MaskSetsAfter(RandomSample(g, n_snps), n_snps, stages)

\* generate_random_masks(n_snps): np.random.seed(self.seed), then three
\* sets of n_snps scores
GenerateRandomMasks(n_snps) == MaskSets(NpRandomSeed(RandSeed), n_snps, 3)

\* generate_random_masks(len(snp_list)), after
\* snp_list = sorted(list(unique_snps))
RandGenerate ==
    /\ pc = "generate" /\ strategy = "rand"
    /\ snp_list' = Sorted(unique_snps)
    /\ LET Store(o) == mask_sets' = o.v /\ rng' = o.g
       IN  Store(GenerateRandomMasks(Cardinality(unique_snps)))
    /\ pc' = "stage12"
    /\ UNCHANGED <<libm, mafVars, graphVars, rowVars,
                   strategy, file, pos, batch_size, lines, r2_threshold, k,
                   missing_rate, snp_neighbors, unique_snps, chunks, seed_snps,
                   masked_snps, stage2, masked_indices, mask_df, runs,
                   first_out>>

\* int(n_snps * self.missing_rate): the product of float(n_snps) and the
\* rate rounded to a double, then cut to its integer part
NToMask(n, rate) == Trunc(FMul(IntToFloat(n), rate))

\* np.argsort(a): the indices 0..n-1 by ascending score.  For arrays this
\* short numpy sorts by insertion, so equal scores stay in index order.
RECURSIVE Argsort(_, _)
Argsort(a, S) ==
    IF S = {} THEN <<>>
    ELSE LET m == CHOOSE i \in S :
                     \A j \in S \ {i} :
                        \/ FloatLT(a[i + 1], a[j + 1])
                        \/ (FloatEQ(a[i + 1], a[j + 1]) /\ i < j)
         IN  <<m>> \o Argsort(a, S \ {m})

\* np.argsort(primary_mask)[:n_to_mask]
PrimaryIndices(primary_mask, n_to_mask) ==
    SubSeq(Argsort(primary_mask, 0..Len(primary_mask) - 1), 1, n_to_mask)

\* The 0.3 of `secondary_selection[...] > 0.3`
Stage2Threshold == PyFloat("0.3")

\* secondary_selection[...] > 0.3
Stage2Passes(score) == FloatGT(score, Stage2Threshold)

\* Stages 1 and 2 of apply_structured_masking: masked_indices before the
\* backfill.
Stage2Selection(sets, n_to_mask) ==
    LET primary_indices == PrimaryIndices(sets[1], n_to_mask)
    IN  {primary_indices[i] : i \in
            {j \in 1..Len(primary_indices) :
                Stage2Passes(sets[2][primary_indices[j] + 1])}}

\* [i for i in range(n_snps) if i not in masked_indices]
RECURSIVE RemainingCandidates(_, _, _)
RemainingCandidates(i, n, masked) ==
    IF i >= n THEN <<>>
    ELSE (IF i \in masked THEN <<>> ELSE <<i>>)
             \o RemainingCandidates(i + 1, n, masked)

\* apply_structured_masking up to `remaining_needed = ...`
RandStage12 ==
    /\ pc = "stage12" /\ strategy = "rand"
    /\ stage2' = Stage2Selection(mask_sets, NToMask(Len(snp_list), missing_rate))
    /\ pc' = "backfill"
    /\ UNCHANGED <<libm, mafVars, graphVars, rowVars,
                   strategy, file, pos, batch_size, lines, r2_threshold, k,
                   missing_rate, snp_neighbors, unique_snps, chunks, snp_list,
                   seed_snps, masked_snps, mask_sets, masked_indices, mask_df,
                   rng, runs, first_out>>

\* if remaining_needed > 0: ... np.random.choice(remaining_candidates,
\* size=min(remaining_needed, len(remaining_candidates)), replace=False);
\* return masked_indices
RandBackfill ==
    /\ pc = "backfill" /\ strategy = "rand"
    /\ LET n == Len(snp_list)
           remaining_needed == NToMask(n, missing_rate) - Cardinality(stage2)
           remaining_candidates == RemainingCandidates(0, n, stage2)
           Update(o) ==
               /\ masked_indices' =
                      stage2 \cup {remaining_candidates[o.v[i] + 1] :
                                      i \in 1..Len(o.v)}
               /\ rng' = o.g
       IN  IF remaining_needed > 0 /\ remaining_candidates # <<>>
           THEN Update(Choice(rng, Len(remaining_candidates),
                              Min(remaining_needed, Len(remaining_candidates))))
           ELSE masked_indices' = stage2 /\ rng' = rng
    /\ pc' = "quantify"
    /\ UNCHANGED <<libm, mafVars, graphVars, rowVars,
                   strategy, file, pos, batch_size, lines, r2_threshold, k,
                   missing_rate, snp_neighbors, unique_snps, chunks, snp_list,
                   seed_snps, masked_snps, mask_sets, stage2, mask_df, runs,
                   first_out>>

RECURSIVE InsertAsc(_, _)
InsertAsc(sorted, x) ==
    IF sorted = <<>> THEN <<x>>
    ELSE IF ~IntLess(x, Head(sorted))
    THEN <<Head(sorted)>> \o InsertAsc(Tail(sorted), x)
    ELSE <<x>> \o sorted

\* sorted(masked_positions), for the positions of a set of indices
RECURSIVE SortedPositions(_, _)
SortedPositions(positions, S) ==
    IF S = {} THEN <<>>
    ELSE LET i == CHOOSE i \in S : TRUE
         IN  InsertAsc(SortedPositions(positions, S \ {i}), positions[i + 1])

\* Whether numpy holds a list of ints that are not negative as an array of
\* 64-bit integers; a list with an int of 2^64 or more becomes an array of
\* Python objects.
FitsInt64(l) == \A i \in 1..Len(l) : BitLen(l[i].n) <= 64

AsFloats(l) == [i \in 1..Len(l) |-> BigToFloat(l[i].s, l[i].n)]

\* The exact sum of a list of ints that are not negative
RECURSIVE IntSum(_)
IntSum(l) ==
    IF l = <<>> THEN <<>>
    ELSE BigAdd(IntSum(SubSeq(l, 1, Len(l) - 1)), l[Len(l)].n)

\* x[0] + x[1] + ..., added from left to right
SumInOrder(x) == SumFrom(x, 2, Len(x), 1, x[1])

\* np.mean(l) of a list of ints that are not negative: the sum of the ints
\* as doubles over their number; for an array of objects the exact sum
\* over their number.
NpMeanInts(l) ==
    IF FitsInt64(l) THEN NpMean(AsFloats(l))
    ELSE RoundQ(0, IntSum(l), Big(Len(l)), 0)

\* np.var(l) of such a list: the mean of the squares of l[i] - mean; the
\* squares of an array of objects are added in order.
NpVarInts(l) ==
    IF FitsInt64(l) THEN NpVar(AsFloats(l))
    ELSE FDiv(SumInOrder(Deviations(AsFloats(l), NpMeanInts(l))),
              IntToFloat(Len(l)))

\* quantify_masking_strength.
\* positions = [int(snp.split('_')[1]) for snp in original_snps]
Positions(snps) == [i \in 1..Len(snps) |-> PyInt(SplitOn(snps[i], "_")[2])]

\* Whether int() read every position; it raises ValueError for the first
\* that it does not read
AllInts(positions) == \A i \in 1..Len(positions) : positions[i].ok

\* spacings = [sorted_masked[i+1] - sorted_masked[i] for i in ...]
Spacings(sorted_masked) ==
    [i \in 1..Len(sorted_masked) - 1 |->
        IntSub(sorted_masked[i + 1], sorted_masked[i])]

\* spacing_variance = np.var(spacings) if mean_spacing > 0 else 0
SpacingVariance(spacings, mean_spacing) ==
    IF FloatGT(mean_spacing, Zero(0)) THEN NpVarInts(spacings) ELSE Zero(0)

\* The 1e-10 added to mean_spacing**2
Epsilon == PyFloat("1e-10")

\* kx * 2^e without the drop = et - e bits below 2^et: the double it is, or
\* the double below it and the double above it
Bracket(kx, et, drop) ==
    IF drop <= 0 THEN {Packed(Binary64, 0, Shl(kx, -drop), et)}
    ELSE IF LowZero(kx, drop) THEN {Packed(Binary64, 0, Shr(kx, drop), et)}
    ELSE {Packed(Binary64, 0, Shr(kx, drop), et),
          RoundedUp(Binary64, 0, BigAdd(Shr(kx, drop), <<1>>), et)}

BracketAt(kx, e, et) == Bracket(kx, et, et - e)

BracketOf(kx, e) == BracketAt(kx, e, Max(e + BitLen(kx) - 53, -1074))

\* x**2 of a float: C's pow(x, 2.0).  A square that is a double is returned
\* as it is; any other is returned as one of the two doubles next to it, and
\* the libm in use decides which.
PowSquares(x) ==
    IF x.kind = "nan" THEN {NaN}
    ELSE IF x.kind = "inf" THEN {Inf(0)}
    ELSE IF x.m = <<>> THEN {Zero(0)}
    ELSE BracketOf(BigSquare(x.m), 2 * x.e)

\* pow is a function: in one process it returns for x what it returned for x
\* before.  m holds the squares returned so far.
Squared(m, x) == IF x \in DOMAIN m THEN {m[x]} ELSE PowSquares(x)

Remembered(m, x, square) == IF x \in DOMAIN m THEN m ELSE (x :> square) @@ m

\* 1.0 / (1.0 + spacing_variance / (mean_spacing**2 + 1e-10)), for the
\* square that mean_spacing**2 gave
Uniformity(spacing_variance, square) ==
    FDiv(IntToFloat(1),
         FAdd(IntToFloat(1), FDiv(spacing_variance, FAdd(square, Epsilon))))

\* qms = (n_masked / n_total) * uniformity
QmsValue(n_masked, n_total, uniformity) ==
    FMul(FDiv(IntToFloat(n_masked), IntToFloat(n_total)), uniformity)

\* What quantify_masking_strength does is given as [v, libm]: v is the
\* float returned, or ValueError for an exception raised, and libm holds
\* the squares pow has returned afterwards.
QmsRaised(m) == [v |-> ValueError, libm |-> m]

\* From uniformity = ... on.  mean_spacing is a Python float when spacings
\* is an array of objects, and float.__pow__ raises OverflowError for a
\* square beyond the doubles, where the numpy float gives inf.
QmsWithVariance(n_masked, n_total, mean_spacing, spacing_variance, m, objects) ==
    { IF objects /\ square.kind = "inf" THEN QmsRaised(m)
      ELSE [v |-> QmsValue(n_masked, n_total,
                           Uniformity(spacing_variance, square)),
            libm |-> Remembered(m, mean_spacing, square)] :
        square \in Squared(m, mean_spacing) }

\* Whether float() of an int of the list raises OverflowError
FloatOverflows(l) ==
    \E i \in 1..Len(l) : BigToFloat(l[i].s, l[i].n).kind = "inf"

\* From spacing_variance = ... on.  In an array of objects the mean is the
\* quotient of two ints and the deviations are int - float: both raise
\* OverflowError for a number beyond the doubles.
QmsWithMean(n_masked, n_total, spacings, mean_spacing, m) ==
    IF ~FitsInt64(spacings)
          /\ (mean_spacing.kind = "inf" \/ FloatOverflows(spacings))
    THEN {QmsRaised(m)}
    ELSE QmsWithVariance(n_masked, n_total, mean_spacing,
                         SpacingVariance(spacings, mean_spacing), m,
                         ~FitsInt64(spacings))

\* From mean_spacing = np.mean(spacings) on
QmsOfSpacings(n_masked, n_total, spacings, m) ==
    QmsWithMean(n_masked, n_total, spacings, NpMeanInts(spacings), m)

\* quantify_masking_strength(original_snps, masked_indices): int() of every
\* position first; 0.0 with fewer than two masked variants; else
\* (n_masked / n_total) * uniformity
Qms(snps, masked, m) ==
    IF ~AllInts(Positions(snps)) THEN {QmsRaised(m)}
    ELSE IF Cardinality(masked) < 2 THEN {[v |-> Zero(0), libm |-> m]}
    ELSE QmsOfSpacings(Cardinality(masked), Len(snps),
                       Spacings(SortedPositions(Positions(snps), masked)), m)

\* One row of the random table: CHR, POS, SNP_ID, MASKED, STAGE1_VAL,
\* STAGE2_VAL, STAGE3_VAL, QMS.
RandRow(i, snp, masked, sets, qms) ==
    LET chr_pos == SplitOn(snp, "_")
    IN  <<chr_pos[1], chr_pos[2], snp, i \in masked, sets[1][i + 1],
          sets[2][i + 1], sets[3][i + 1], qms>>

RandSchema == <<"CHR", "POS", "SNP_ID", "MASKED", "STAGE1_VAL", "STAGE2_VAL",
                "STAGE3_VAL", "QMS">>

\* mask_data, one list for each variant of snp_list
RandMaskData(snps, masked, sets, qms) ==
    [i \in 1..Len(snps) |-> RandRow(i - 1, snps[i], masked, sets, qms)]

\* mask_df = pl.DataFrame(mask_data, schema=[...])
RandFrame(mask_data) ==
    \E orient \in OrientationsOf(mask_data, RandSchema) :
       IF orient = "col" THEN pc' = "raised" /\ UNCHANGED mask_df
       ELSE pc' = "done" /\ mask_df' = mask_data

\* qms = self.quantify_masking_strength(...); print(...); mask_data = [...];
\* return mask_df.  quantify_masking_strength raises for a position that is
\* not a number, the masking-rate print raises ZeroDivisionError when there
\* is no variant, and pl.DataFrame raises TypeError when it takes the lists
\* of strings, a boolean and floats as columns.
RandCreateMask ==
    /\ pc = "quantify" /\ strategy = "rand"
    /\ \E qms \in Qms(snp_list, masked_indices, libm) :
          /\ libm' = qms.libm
          /\ IF qms.v.kind = "err" \/ Len(snp_list) = 0
             THEN pc' = "raised" /\ UNCHANGED mask_df
             ELSE RandFrame(RandMaskData(snp_list, masked_indices, mask_sets,
                                         qms.v))
    /\ runs' = runs + 1
    /\ UNCHANGED <<mafVars, graphVars, rowVars,
                   strategy, file, pos, batch_size, lines, r2_threshold, k,
                   missing_rate, snp_neighbors, unique_snps, chunks, snp_list,
                   seed_snps, masked_snps, mask_sets, stage2, masked_indices,
                   rng, first_out>>

-----------------------------------------------------------------------------
(* LDGraphBuilder.build_pytorch_geometric_graph after load_ld_data *)

\* df.iter_slices(n_rows=n): the rows in consecutive frames of n rows.
RECURSIVE IterSlices(_, _)
IterSlices(rows, n) ==
    IF rows = <<>> THEN <<>>
    ELSE <<SubSeq(rows, 1, Min(n, Len(rows)))>>
             \o IterSlices(SubSeq(rows, n + 1, Len(rows)), n)

\* pl.col('R2').str.contains(r'^\d+\.?\d*$'): one or more digits, then an
\* optional dot, then any number of digits, and nothing else.
R2Pattern(s) ==
    LET dot == Find(s, ".")
        ip == IF dot = 0 THEN s ELSE SubSeq(s, 1, dot - 1)
        fp == IF dot = 0 THEN "" ELSE SubSeq(s, dot + 1, Len(s))
    IN  Len(ip) > 0 /\ AllDigits(ip) /\ AllDigits(fp)

\* pl.col('R2').cast(pl.Float64) on one value: the cast is strict, so a
\* string that is no number makes the whole expression raise.  Decimal and
\* exponent forms, nan and inf convert as float() converts them; an
\* underscore between digits is no part of a number.
CastFloat64(s) == IF Find(s, "_") > 0 THEN ValueError ELSE PyFloat(s)

\* The cast raises on a frame as soon as one of its values does not convert.
CastRaises(frame) ==
    \E i \in 1..Len(frame) : CastFloat64(frame[i][7]).kind = "err"

\* batch_df.filter(contains(...).fill_null(False) & (cast(...) >= threshold))
FilterFrame(frame, thr) ==
    SelectSeq(frame, LAMBDA row :
        R2Pattern(row[7]) /\ FloatGE(CastFloat64(row[7]), thr))

\* filtered_chunks of the loop over df.iter_slices
RECURSIVE FilteredChunks(_, _)
FilteredChunks(frames, thr) ==
    IF frames = <<>> THEN <<>>
    ELSE AppendFrame(<<>>, FilterFrame(Head(frames), thr))
             \o FilteredChunks(Tail(frames), thr)

\* df = self.load_ld_data(...); the filter loop; df = pl.concat(...)
GraphFilter ==
    /\ pc = "loaded" /\ strategy = "loader"
    /\ LET loaded == Concat(chunks)
           frames == IterSlices(loaded, batch_size)
       IN  IF \E i \in 1..Len(frames) : CastRaises(frames[i])
           THEN pc' = "raised" /\ df' = loaded
           ELSE pc' = "nodes"
                /\ df' = Concat(FilteredChunks(frames, r2_threshold))
    /\ UNCHANGED <<libm, mafVars, rowVars, node_ids, classes, edge_indices, nodes,
                   strategy, file, pos, batch_size, lines, r2_threshold, k,
                   missing_rate, snp_neighbors, unique_snps, chunks, snp_list,
                   seed_snps, masked_snps, mask_sets, stage2, masked_indices,
                   mask_df, rng, runs, first_out>>

\* All sequences of `size` distinct members of S.
RECURSIVE Arrangements(_, _)
Arrangements(S, size) ==
    IF size = 0 THEN {<<>>}
    ELSE UNION {{<<x>> \o t : t \in Arrangements(S \ {x}, size - 1)} : x \in S}

\* All orders in which list(a_set) can hold the members of the set.
Orders(S) == Arrangements(S, Cardinality(S))

\* LabelEncoder.fit(y): classes_ = np.unique(y), the distinct values in
\* ascending order.
Fit(y) == Sorted(SeqToSet(y))

\* The loop that fills unique_node_ids; node_ids = list(unique_node_ids);
\* self.node_encoder.fit(node_ids)
GraphCollectNodes ==
    /\ pc = "nodes" /\ strategy = "loader"
    /\ unique_snps' = KeysOf(df)
    /\ node_ids' \in Orders(unique_snps')
    /\ classes' = Fit(node_ids')
    /\ pc' = "edges"
    /\ UNCHANGED <<libm, mafVars, rowVars, df, edge_indices, nodes,
                   strategy, file, pos, batch_size, lines, r2_threshold, k,
                   missing_rate, snp_neighbors, chunks, snp_list,
                   seed_snps, masked_snps, mask_sets, stage2, masked_indices,
                   mask_df, rng, runs, first_out>>

\* np.searchsorted(classes_, value, side='right'): the number of classes
\* that are not above the value.
SearchsortedRight(cls, value) ==
    Cardinality({i \in 1..Len(cls) : ~StrLess(value, cls[i])})

\* np.searchsorted(classes_, value): the number of classes below the value,
\* which is the code (from 0) of a value that is a class.
Searchsorted(cls, value) ==
    Cardinality({i \in 1..Len(cls) : StrLess(cls[i], value)})

\* LabelEncoder.transform(y)
Transform(cls, y) == [i \in 1..Len(y) |-> Searchsorted(cls, y[i])]

\* LabelEncoder.inverse_transform on one code
InverseTransform(cls, code) == cls[code + 1]

\* batch_edge_index of one frame: the codes of the sources and of the
\* targets.
BatchEdgeIndex(cls, frame) ==
    <<Transform(cls, [i \in 1..Len(frame) |-> Key(frame[i][1], frame[i][2])]),
      Transform(cls, [i \in 1..Len(frame) |-> Key(frame[i][4], frame[i][5])])>>

\* The loop that fills edge_indices, one entry for each frame of df.
GraphCreateEdges ==
    /\ pc = "edges" /\ strategy = "loader"
    /\ LET frames == IterSlices(df, batch_size)
       IN  edge_indices' =
              [b \in 1..Len(frames) |-> BatchEdgeIndex(classes, frames[b])]
    /\ pc' = "features"
    /\ UNCHANGED <<libm, mafVars, rowVars, df, node_ids, classes, nodes,
                   strategy, file, pos, batch_size, lines, r2_threshold, k,
                   missing_rate, snp_neighbors, unique_snps, chunks, snp_list,
                   seed_snps, masked_snps, mask_sets, stage2, masked_indices,
                   mask_df, rng, runs, first_out>>

\* chr_str, bp_str = node_id.split('_') raises unless the key has two
\* parts.
SplitRaises(node_id) == Len(SplitOn(node_id, "_")) # 2

\* The columns of the frame of nodes.
NodeSchema == <<"chr", "bp", "node_id">>

\* nodes_data of create_nodes_from_ids: one list chr, bp, node_id for each
\* id, in the order of node_ids.
NodesData(ids) ==
    [i \in 1..Len(ids) |->
        <<SplitOn(ids[i], "_")[1], SplitOn(ids[i], "_")[2], ids[i]>>]

\* pl.DataFrame(nodes_data, schema=[...]) is called without orient: three
\* lists of three fields are square data.
NodeOrientations(nodes_data) ==
    IF Len(nodes_data) = Len(NodeSchema) THEN {"row", "col"} ELSE {"row"}

\* create_nodes_from_ids(node_ids): the rows of the frame returned, under an
\* orientation.
CreateNodesFromIds(ids, orient) ==
    IF orient = "col"
    THEN [i \in 1..Len(NodeSchema) |->
             [j \in 1..Len(ids) |-> NodesData(ids)[j][i]]]
    ELSE NodesData(ids)

\* x: torch.tensor(nodes.select(['chr', 'bp']).cast(pl.Float64).to_numpy(),
\* dtype=torch.float), one row of two 32-bit floats for each row of nodes,
\* in the same order.
NodeFeatures(frame) ==
    [i \in 1..Len(frame) |->
        <<ToFloat32(CastFloat64(frame[i][1])),
          ToFloat32(CastFloat64(frame[i][2]))>>]

\* nodes = self.create_nodes_from_ids(node_ids); x = torch.tensor(...);
\* return Data(x=x, edge_index=edge_index, edge_attr=edge_attr)
GraphCreateFeatures ==
    /\ pc = "features" /\ strategy = "loader"
    /\ IF \E i \in 1..Len(node_ids) : SplitRaises(node_ids[i])
       THEN pc' = "raised" /\ nodes' = nodes
       ELSE /\ \E orient \in NodeOrientations(NodesData(node_ids)) :
                  nodes' = CreateNodesFromIds(node_ids, orient)
            /\ pc' = IF \E i \in 1..Len(nodes') :
                           \E c \in 1..2 : NodeFeatures(nodes')[i][c].kind = "err"
                     THEN "raised" ELSE "done"
    /\ UNCHANGED <<libm, mafVars, rowVars, df, node_ids, classes, edge_indices,
                   strategy, file, pos, batch_size, lines, r2_threshold, k,
                   missing_rate, snp_neighbors, unique_snps, chunks, snp_list,
                   seed_snps, masked_snps, mask_sets, stage2, masked_indices,
                   mask_df, rng, runs, first_out>>

-----------------------------------------------------------------------------
(* MAFClusterMasking.create_mask_from_ld after the read *)

\* ld_data = pl.concat(ld_chunks) if ld_chunks else pl.DataFrame()
LdData == Concat(chunks)

\* snp_positions = sorted(list(unique_snps))
MafSort ==
    /\ pc = "loaded" /\ strategy = "maf"
    /\ snp_list' = Sorted(unique_snps)
    /\ pc' = "simulate"
    /\ UNCHANGED <<libm, mafVars, graphVars, rowVars,
                   strategy, file, pos, batch_size, lines, r2_threshold, k,
                   missing_rate, snp_neighbors, unique_snps, chunks,
                   seed_snps, masked_snps, mask_sets, stage2, masked_indices,
                   mask_df, rng, runs, first_out>>

\* p=[0.3, 0.7] of the first state
FirstStateP == <<PyFloat("0.3"), PyFloat("0.7")>>

\* np.random.seed(42); states = [np.random.choice([0, 1], p=[0.3, 0.7])]:
\* 0 is rare, 1 is common.  The first state is drawn whatever the number of
\* variants.
MafFirstState ==
    /\ pc = "simulate" /\ strategy = "maf"
    /\ LET Store(o) == states' = o.v /\ rng' = o.g
       IN  Store(ChoiceP(NpRandomSeed(42), FirstStateP, 1))
    /\ pc' = "chain"
    /\ UNCHANGED <<libm, graphVars, rowVars, maf_values, ld_matrix, clusters,
                   strategy, file, pos, batch_size, lines, r2_threshold, k,
                   missing_rate, snp_neighbors, unique_snps, chunks, snp_list,
                   seed_snps, masked_snps, mask_sets, stage2, masked_indices,
                   mask_df, runs, first_out>>

\* transition_matrix = np.array([[0.7, 0.3], [0.2, 0.8]])
transition_matrix ==
    <<<<PyFloat("0.7"), PyFloat("0.3")>>, <<PyFloat("0.2"), PyFloat("0.8")>>>>

\* transition_matrix[current_state]
TransitionRow(current_state) == transition_matrix[current_state + 1]

\* One turn of `for i in range(1, n_snps)`: the next state is drawn from the
\* row of the last state and appended.
MafNextState ==
    /\ pc = "chain" /\ strategy = "maf"
    /\ Len(states) < Len(snp_list)
    /\ LET Store(o) == states' = states \o o.v /\ rng' = o.g
       IN  Store(ChoiceP(rng, TransitionRow(states[Len(states)]), 1))
    /\ UNCHANGED <<libm, graphVars, rowVars, maf_values, ld_matrix, clusters,
                   strategy, pc, file, pos, batch_size, lines, r2_threshold,
                   k, missing_rate, snp_neighbors, unique_snps, chunks,
                   snp_list, seed_snps, masked_snps, mask_sets, stage2,
                   masked_indices, mask_df, runs, first_out>>

\* np.random.beta(1, 20) and np.random.beta(2, 2) are quotients of gamma
\* variates, which the generator makes from its doubles with the log and
\* sqrt of the C library in loops that reject.  The doubles drawn by
\* `for state in states` after np.random.seed(42) and the draws of the
\* states, for 1 to 50 states, with the library's functions rounded as glibc
\* rounds them, each with its decimal text:
BetaDraws42 ==
    <<
      Num(0, <<31615, 2194, 19376, 227>>, -55),  \* 0.22225713929489285
      Num(0, <<14532, 7256, 19180, 189>>, -54),  \* 0.3702838552861858
      Num(0, <<20068, 2593, 11912, 158>>, -53),  \* 0.618607530492636
      Num(0, <<18711, 22893, 29226, 194>>, -54), \* 0.38064829699136865
      Num(0, <<24223, 19744, 18276, 249>>, -54), \* 0.48741749540338647
      Num(0, <<17410, 7477, 32711, 255>>, -54),  \* 0.499996616136798
      Num(0, <<24232, 2675, 27019, 160>>, -54),  \* 0.3141104627643281
      Num(0, <<14154, 24676, 1444, 231>>, -53),  \* 0.9025159779864478
      Num(0, <<5860, 15935, 20391, 143>>, -58),  \* 0.017532018893596027
      Num(0, <<14032, 23404, 8095, 146>>, -53),  \* 0.5712775843437274
      Num(0, <<774, 16751, 15048, 146>>, -56),   \* 0.07151330279112864
      Num(0, <<24851, 968, 15719, 247>>, -55),   \* 0.2416794010866928
      Num(0, <<4672, 4642, 19746, 141>>, -57),   \* 0.03457094834496788
      Num(0, <<6625, 24737, 17502, 157>>, -57),  \* 0.03846048381119594
      Num(0, <<31096, 5358, 29053, 221>>, -61),  \* 0.003385721316347897
      Num(0, <<27710, 1343, 31980, 176>>, -59),  \* 0.010801754968261187
      Num(0, <<14416, 32595, 4999, 212>>, -57),  \* 0.051795065363749004
      Num(0, <<29056, 7045, 3251, 212>>, -53),   \* 0.8285125750331161
      Num(0, <<30817, 5600, 15991, 141>>, -54),  \* 0.2763437730626546
      Num(0, <<1473, 17959, 8976, 207>>, -61),   \* 0.003162749366865753
      Num(0, <<2919, 13425, 2183, 250>>, -56),   \* 0.12210284783990986
      Num(0, <<26222, 20180, 8192, 180>>, -56),  \* 0.08801270448966544
      Num(0, <<14254, 5603, 12862, 227>>, -54),  \* 0.44412602013368996
      Num(0, <<16197, 1987, 18651, 181>>, -55),  \* 0.17731365742246843
      Num(0, <<12597, 9067, 3538, 194>>, -53),   \* 0.7582342954533831
      Num(0, <<5429, 28567, 4400, 174>>, -57),   \* 0.04251325780004792
      Num(0, <<17347, 31735, 12686, 251>>, -61), \* 0.0038358638847672834
      Num(0, <<26050, 8736, 13741, 168>>, -55),  \* 0.16447202165799807
      Num(0, <<5006, 4149, 17486, 131>>, -53),   \* 0.5138032587316148
      Num(0, <<22959, 24090, 11006, 213>>, -55), \* 0.20833583877056358
      Num(0, <<14695, 30649, 30227, 135>>, -53), \* 0.5309472006972954
      Num(0, <<3109, 315, 20691, 138>>, -56),    \* 0.06769113256955046
      Num(0, <<31060, 12180, 5188, 247>>, -56),  \* 0.12068278151352746
      Num(0, <<9231, 22515, 28640, 152>>, -53),  \* 0.5971642359628521
      Num(0, <<31436, 29750, 9145, 199>>, -54),  \* 0.38921701359315075
      Num(0, <<20727, 5268, 13745, 169>>, -53),  \* 0.661794800852049
      Num(0, <<5877, 24421, 4267, 128>>, -53),   \* 0.5005087548822461
      Num(0, <<19255, 22133, 22582, 219>>, -55), \* 0.2145402036745396
      Num(0, <<19265, 21071, 29131, 162>>, -53), \* 0.6362852624718941
      Num(0, <<25783, 28038, 15731, 206>>, -53), \* 0.8065628833384356
      Num(0, <<10723, 12740, 13945, 186>>, -57), \* 0.045514057493239134
      Num(0, <<32574, 29983, 12193, 243>>, -60), \* 0.007427127952723654
      Num(0, <<19931, 32396, 30396, 195>>, -53), \* 0.7653423534233598
      Num(0, <<2745, 4690, 4485, 164>>, -53),    \* 0.6411596707260606
      Num(0, <<27779, 26396, 2979, 210>>, -53),  \* 0.8206677205047445
      Num(0, <<9357, 24915, 18343, 237>>, -56),  \* 0.11599599957993885
      Num(0, <<12383, 7089, 16267, 227>>, -53),  \* 0.8886579533041291
      Num(0, <<12010, 24314, 2304, 136>>, -54),  \* 0.26576237332913755
      Num(0, <<29912, 17057, 30906, 131>>, -53), \* 0.5154030943591819
      Num(0, <<26387, 9479, 15927, 149>>, -53),  \* 0.583929930842006
      Num(0, <<8971, 22607, 13541, 227>>, -53),  \* 0.88833304523459
      Num(0, <<6223, 23536, 562, 220>>, -53),    \* 0.8594420812448876
      Num(0, <<18860, 6712, 4945, 198>>, -53),   \* 0.7740270143570362
      Num(0, <<24356, 8893, 11688, 250>>, -58),  \* 0.030561120329109973
      Num(0, <<7008, 30895, 3947, 231>>, -58),   \* 0.028212949420687194
      Num(0, <<5491, 23434, 18935, 208>>, -54),  \* 0.4073786565753245
      Num(0, <<13169, 9264, 2497, 142>>, -53),   \* 0.554985199299706
      Num(0, <<2166, 12996, 27563, 138>>, -58),  \* 0.016948384778978164
      Num(0, <<13690, 12193, 11328, 192>>, -54), \* 0.37567522359571337
      Num(0, <<8716, 2790, 19831, 230>>, -54),   \* 0.45040077478600504
      Num(0, <<14778, 17425, 29369, 150>>, -53), \* 0.5894386210182383
      Num(0, <<31136, 18165, 2306, 215>>, -57),  \* 0.05250741954431537
      Num(0, <<31543, 22271, 20165, 188>>, -54), \* 0.36838946817435975
      Num(0, <<2676, 9898, 7147, 128>>, -60),    \* 0.003912906443761178
      Num(0, <<2946, 14594, 15620, 128>>, -57),  \* 0.03136638138723581
      Num(0, <<876, 17172, 30608, 240>>, -59),   \* 0.01470545031884437
      Num(0, <<27792, 3991, 21253, 160>>, -53),  \* 0.6275335695530817
      Num(0, <<30950, 19209, 17431, 151>>, -55), \* 0.14798043925288268
      Num(0, <<25697, 11807, 12941, 167>>, -58), \* 0.020433952511642043
      Num(0, <<22534, 26071, 4414, 204>>, -57),  \* 0.049837580290770275
      Num(0, <<30850, 5693, 6853, 213>>, -55),   \* 0.20821205299393247
      Num(0, <<32534, 23276, 786, 215>>, -57),   \* 0.0524960958239246
      Num(0, <<22561, 22929, 14582, 197>>, -60), \* 0.006025544088108987
      Num(0, <<4826, 1374, 2519, 244>>, -55),    \* 0.23835632329987427
      Num(0, <<15359, 23734, 13258, 235>>, -58), \* 0.028735916034573702
      Num(0, <<12816, 10500, 18443, 138>>, -55), \* 0.13531527878184635
      Num(0, <<10510, 1879, 3137, 205>>, -57),   \* 0.050072201023640614
      Num(0, <<29788, 154, 17224, 136>>, -56),   \* 0.06666290767084732
      Num(0, <<4336, 5170, 24878, 136>>, -53),   \* 0.5342157075142762
      Num(0, <<28913, 21346, 5252, 251>>, -58),  \* 0.030659216089007072
      Num(0, <<17920, 25094, 29042, 198>>, -56), \* 0.09711245843507044
      Num(0, <<24851, 11302, 28887, 134>>, -58), \* 0.01646503562082653
      Num(0, <<21827, 30850, 7426, 194>>, -58),  \* 0.02370930813807105
      Num(0, <<3820, 11734, 25150, 226>>, -57),  \* 0.05536316602004185
      Num(0, <<4996, 32208, 9125, 199>>, -58),   \* 0.024325989123116468
      Num(0, <<19017, 1991, 22465, 221>>, -58),  \* 0.02706122793547142
      Num(0, <<4925, 12942, 18576, 221>>, -54),  \* 0.4327478644229819
      Num(0, <<31238, 17218, 1113, 246>>, -59),  \* 0.01501672254033527
      Num(0, <<20790, 1108, 9766, 174>>, -59),   \* 0.010638307843045963
      Num(0, <<22551, 5002, 22488, 167>>, -53),  \* 0.6550245467030916
      Num(0, <<31715, 26074, 16655, 218>>, -54), \* 0.4267740127888244
      Num(0, <<5323, 29251, 30960, 153>>, -59),  \* 0.00939604806280627
      Num(0, <<19832, 25051, 11312, 195>>, -54), \* 0.38153366831030366
      Num(0, <<4834, 30502, 20837, 170>>, -58),  \* 0.020829580466641746
      Num(0, <<11883, 21662, 14184, 139>>, -56), \* 0.06808246167127556
      Num(0, <<26009, 8216, 32457, 253>>, -56),  \* 0.1240188069754339
      Num(0, <<5928, 11421, 2981, 141>>, -56),   \* 0.06889208180527062
      Num(0, <<6374, 13686, 4916, 150>>, -57),   \* 0.03665772391609483
      Num(0, <<14785, 20090, 14131, 212>>, -62), \* 0.0016207219132017144
      Num(0, <<21841, 24939, 16638, 152>>, -57), \* 0.03723334343059526
      Num(0, <<6222, 907, 10561, 172>>, -59),    \* 0.010517718321988802
      Num(0, <<3096, 27002, 29892, 148>>, -61),  \* 0.0022722207121730446
      Num(0, <<25426, 24243, 11058, 180>>, -56), \* 0.08805541306527445
      Num(0, <<12162, 23632, 24956, 159>>, -54), \* 0.31203441150204736
      Num(0, <<30701, 27600, 15734, 189>>, -56), \* 0.09251962367167695
      Num(0, <<6561, 30462, 12849, 194>>, -57),  \* 0.0474590206863923
      Num(0, <<20478, 18830, 17356, 143>>, -59), \* 0.008760356483357153
      Num(0, <<15927, 1844, 10489, 158>>, -53),  \* 0.6184378929482993
      Num(0, <<16368, 8097, 21182, 198>>, -55),  \* 0.19399065515744907
      Num(0, <<19711, 18891, 22196, 149>>, -60), \* 0.004567791313422775
      Num(0, <<15587, 10132, 5696, 238>>, -60),  \* 0.007268488695117289
      Num(0, <<16890, 25488, 13804, 184>>, -53), \* 0.720395657759638
      Num(0, <<888, 6634, 31074, 164>>, -58),    \* 0.020135291674935968
      Num(0, <<30710, 16302, 3897, 252>>, -58),  \* 0.03077623805972248
      Num(0, <<23507, 16129, 4289, 148>>, -55),  \* 0.14465908683061332
      Num(0, <<10942, 31751, 4506, 238>>, -55),  \* 0.23255619314234893
      Num(0, <<5263, 26677, 12686, 238>>, -57),  \* 0.058199992881136635
      Num(0, <<27270, 9238, 10199, 224>>, -54),  \* 0.4381079245774021
      Num(0, <<24016, 13983, 7155, 214>>, -54),  \* 0.4183952466696299
      Num(0, <<13944, 4652, 27202, 170>>, -60),  \* 0.005213322250154577
      Num(0, <<3203, 26065, 19920, 242>>, -57),  \* 0.0592304527420078
      Num(0, <<21476, 25575, 3141, 162>>, -57),  \* 0.03957418933888571
      Num(0, <<19836, 19844, 13793, 215>>, -62), \* 0.0016435313982910696
      Num(0, <<5974, 31609, 4898, 254>>, -59),   \* 0.015512054720214923
      Num(0, <<17616, 15577, 13231, 213>>, -58), \* 0.02605026764939994
      Num(0, <<8014, 17494, 915, 224>>, -59),    \* 0.013673580314744218
      Num(0, <<9247, 11246, 22654, 132>>, -55),  \* 0.12958140203980492
      Num(0, <<22032, 9431, 8686, 188>>, -57),   \* 0.04596315538757889
      Num(0, <<19481, 25491, 28427, 195>>, -56), \* 0.09563845065149258
      Num(0, <<9632, 14335, 10999, 158>>, -59),  \* 0.00966404273636351
      Num(0, <<14445, 15169, 17164, 181>>, -57), \* 0.044317338339497116
      Num(0, <<11946, 9881, 29741, 168>>, -56),  \* 0.08247442992859058
      Num(0, <<26678, 15269, 29268, 208>>, -54), \* 0.40799453651891626
      Num(0, <<14856, 19747, 27926, 196>>, -54), \* 0.384477055230406
      Num(0, <<6763, 30397, 13417, 199>>, -57),  \* 0.04868395572639347
      Num(0, <<685, 13884, 24320, 181>>, -56),   \* 0.0887413088039561
      Num(0, <<5132, 6510, 31523, 194>>, -54),   \* 0.38078517905916054
      Num(0, <<32753, 2952, 26211, 135>>, -57),  \* 0.03315427221446033
      Num(0, <<30937, 17551, 29944, 216>>, -53), \* 0.8473196668199093
      Num(0, <<21959, 1921, 4405, 151>>, -57),   \* 0.03689805461946665
      Num(0, <<11829, 31277, 23029, 253>>, -61), \* 0.003871197791075943
      Num(0, <<8347, 22807, 26921, 194>>, -61),  \* 0.002972741469751195
      Num(0, <<15686, 18140, 24818, 175>>, -53), \* 0.6865523521427483
      Num(0, <<12888, 13861, 4649, 214>>, -56),  \* 0.10456146930182209
      Num(0, <<19411, 19913, 13791, 177>>, -53), \* 0.6930503377574219
      Num(0, <<6533, 24242, 1655, 128>>, -57),   \* 0.03126233622292588
      Num(0, <<26281, 833, 19351, 238>>, -59),   \* 0.014562411281178926
      Num(0, <<7920, 32733, 24850, 220>>, -56),  \* 0.10779218374102206
      Num(0, <<11322, 16606, 31794, 247>>, -57), \* 0.06053962191034441
      Num(0, <<9907, 32368, 18890, 159>>, -56),  \* 0.07791821640435152
      Num(0, <<27263, 21484, 15085, 150>>, -58), \* 0.018366745321694907
      Num(0, <<16363, 12345, 6183, 162>>, -59),  \* 0.009899212749218086
      Num(0, <<27528, 20089, 10249, 246>>, -53), \* 0.9621593490950184
      Num(0, <<3911, 16701, 26551, 195>>, -60),  \* 0.005975655754727977
      Num(0, <<4803, 21393, 17507, 249>>, -56),  \* 0.12184291560749742
      Num(0, <<26503, 25982, 6606, 223>>, -59),  \* 0.013623145954557504
      Num(0, <<25248, 31507, 12795, 191>>, -58), \* 0.023363098358887613
      Num(0, <<28010, 30605, 25043, 148>>, -57), \* 0.03631940434885446
      Num(0, <<1838, 30264, 31906, 146>>, -55),  \* 0.14352902542310048
      Num(0, <<29506, 18491, 17346, 177>>, -53), \* 0.6934741216096898
      Num(0, <<17812, 5572, 8971, 248>>, -57),   \* 0.06061371542558472
      Num(0, <<26281, 12901, 1067, 173>>, -59),  \* 0.010561070207006766
      Num(0, <<15141, 30235, 31073, 226>>, -58), \* 0.027703650007818176
      Num(0, <<32232, 11894, 31739, 150>>, -54), \* 0.2948605634573753
      Num(0, <<21044, 12748, 26044, 228>>, -55), \* 0.22343243327908768
      Num(0, <<1363, 21911, 28846, 221>>, -54),  \* 0.4333600204391434
      Num(0, <<10118, 5087, 19526, 208>>, -61),  \* 0.003182920699590977
      Num(0, <<1471, 6720, 20026, 212>>, -53),   \* 0.8305123096799248
      Num(0, <<5825, 13377, 15727, 150>>, -54),  \* 0.29390617658132717
      Num(0, <<1465, 24595, 31984, 165>>, -57),  \* 0.040521508087077725
      Num(0, <<19117, 28299, 4421, 163>>, -58),  \* 0.019913933663199646
      Num(0, <<1569, 957, 15760, 185>>, -60),    \* 0.005660429624101877
      Num(0, <<11722, 907, 21489, 242>>, -58),   \* 0.02962106849137828
      Num(0, <<14263, 32573, 12744, 186>>, -56), \* 0.0910102277109378
      Num(0, <<19558, 7315, 25837, 133>>, -53),  \* 0.5226112870281099
      Num(0, <<16663, 24253, 18932, 225>>, -57), \* 0.055072700531470335
      Num(0, <<25880, 32479, 3814, 242>>, -59),  \* 0.014777613787361463
      Num(0, <<7362, 18668, 16126, 144>>, -58),  \* 0.017638201153684425
      Num(0, <<16528, 14946, 27818, 161>>, -59), \* 0.009878476068621717
      Num(0, <<27599, 13091, 5241, 201>>, -55),  \* 0.19644526837859508
      Num(0, <<22211, 2457, 29660, 244>>, -56),  \* 0.119582594558632
      Num(0, <<28475, 7007, 26702, 203>>, -58),  \* 0.024879746935751994
      Num(0, <<15665, 28544, 3252, 216>>, -57),  \* 0.052758610778364086
      Num(0, <<22959, 11955, 24958, 226>>, -59), \* 0.013840433889737406
      Num(0, <<1303, 18272, 11042, 149>>, -58),  \* 0.018229613295266036
      Num(0, <<7212, 30030, 21162, 221>>, -56),  \* 0.10822550827934724
      Num(0, <<29239, 30932, 21773, 189>>, -53), \* 0.7408769063945958
      Num(0, <<19812, 27145, 3196, 234>>, -55),  \* 0.22861089791113465
      Num(0, <<12438, 25077, 15370, 128>>, -53), \* 0.501832338011371
      Num(0, <<21150, 9575, 16437, 143>>, -53),  \* 0.5605532279283414
      Num(0, <<7089, 18952, 4737, 232>>, -53),   \* 0.9068147633523634
      Num(0, <<30968, 29856, 5058, 174>>, -53),  \* 0.6802905692054813
      Num(0, <<30808, 4069, 16821, 200>>, -54),  \* 0.3916276171329449
      Num(0, <<4264, 4744, 19920, 129>>, -55),   \* 0.1265702290767241
      Num(0, <<6396, 18343, 14653, 184>>, -59),  \* 0.011257763132061609
      Num(0, <<19367, 23329, 25814, 166>>, -58), \* 0.020359839171031926
      Num(0, <<16285, 20116, 16533, 204>>, -53), \* 0.7988459603675327
      Num(0, <<10331, 32216, 5332, 207>>, -57),  \* 0.05057684319588481
      Num(0, <<28526, 1995, 14617, 140>>, -53),  \* 0.5486174894462985
      Num(0, <<3968, 22647, 1843, 151>>, -53),   \* 0.5900635351103887
      Num(0, <<13860, 7280, 4975, 135>>, -53),   \* 0.5279368427015396
      Num(0, <<1647, 13067, 9972, 128>>, -56),   \* 0.06264860032163154
      Num(0, <<15787, 30157, 4795, 158>>, -60),  \* 0.0048262438926224656
      Num(0, <<6499, 20028, 16732, 196>>, -57),  \* 0.0479762301684328
      Num(0, <<23014, 16895, 19012, 189>>, -58), \* 0.023142116202473327
      Num(0, <<14974, 27984, 31759, 162>>, -56), \* 0.07957482120421308
      Num(0, <<29455, 2364, 10542, 176>>, -56),  \* 0.08609458911673705
      Num(0, <<467, 11066, 29235, 215>>, -56),   \* 0.1054161092297428
      Num(0, <<12615, 12960, 6680, 139>>, -57),  \* 0.03398531970023782
      Num(0, <<30922, 9234, 10903, 244>>, -56),  \* 0.11930309656006269
      Num(0, <<11756, 14674, 23024, 132>>, -54), \* 0.2591848640338117
      Num(0, <<7893, 15070, 14750, 158>>, -53),  \* 0.618945891846091
      Num(0, <<19078, 5271, 32264, 160>>, -55),  \* 0.1572115469239927
      Num(0, <<32397, 29498, 15554, 175>>, -58), \* 0.021420251206449015
      Num(0, <<9940, 3385, 21990, 215>>, -54),   \* 0.42123258729644175
      Num(0, <<22212, 31581, 25555, 184>>, -53), \* 0.721796508287945
      Num(0, <<13826, 8862, 4370, 133>>, -54),   \* 0.26002611341832005
      Num(0, <<24023, 10986, 7810, 240>>, -62),  \* 0.0018328731728923708
      Num(0, <<31349, 7137, 23209, 198>>, -64),  \* 0.00037900598357857386
      Num(0, <<30501, 23336, 5892, 239>>, -58),  \* 0.029196756751040404
      Num(0, <<28180, 12437, 3665, 206>>, -54),  \* 0.4025622236474373
      Num(0, <<14576, 26973, 976, 240>>, -60),   \* 0.007325128487464236
      Num(0, <<12583, 7812, 4533, 220>>, -57),   \* 0.05374471275817632
      Num(0, <<12552, 28022, 23984, 203>>, -53), \* 0.7958279675454216
      Num(0, <<32448, 577, 24340, 145>>, -54),   \* 0.2846539031051911
      Num(0, <<30211, 5974, 239, 204>>, -54),    \* 0.39845175637842106
      Num(0, <<9063, 12865, 28801, 173>>, -55),  \* 0.1698036608879889
      Num(0, <<20509, 8525, 24159, 202>>, -57),  \* 0.049496406765143976
      Num(0, <<31094, 27533, 1657, 135>>, -58),  \* 0.016485668123772133
      Num(0, <<19306, 30960, 12042, 179>>, -58), \* 0.021895449403085555
      Num(0, <<17527, 204, 10991, 176>>, -58),   \* 0.02152531968892332
      Num(0, <<21568, 7311, 23325, 255>>, -56),  \* 0.1248592916598037
      Num(0, <<999, 29073, 17358, 229>>, -56),   \* 0.1120750738268864
      Num(0, <<8150, 9773, 27924, 209>>, -55),   \* 0.20493377143907193
      Num(0, <<2508, 29580, 11978, 137>>, -53),  \* 0.5365842464819308
      Num(0, <<20711, 15364, 25321, 239>>, -53), \* 0.9366123043169211
      Num(0, <<24120, 15193, 25577, 217>>, -59), \* 0.013292270644895784
      Num(0, <<32630, 11162, 6148, 174>>, -58),  \* 0.021263138728840635
      Num(0, <<4907, 25446, 22469, 134>>, -53),  \* 0.52611610609947
      Num(0, <<9608, 7707, 20311, 236>>, -57),   \* 0.057768517994939705
      Num(0, <<455, 2636, 14292, 242>>, -57),    \* 0.0591885155472514
      Num(0, <<15662, 13123, 5051, 155>>, -54),  \* 0.30303546193222786
      Num(0, <<10503, 10595, 3530, 213>>, -53),  \* 0.8324520973376658
      Num(0, <<28277, 22994, 23277, 163>>, -53), \* 0.6394936682876976
      Num(0, <<2864, 12188, 3039, 167>>, -60),   \* 0.005099266182585535
      Num(0, <<15780, 1121, 32035, 213>>, -57),  \* 0.05224063272941784
      Num(0, <<30874, 19845, 26299, 214>>, -59), \* 0.01311051027039083
      Num(0, <<19707, 2793, 1227, 148>>, -58),   \* 0.018070977498791923
      Num(0, <<13214, 7027, 22938, 137>>, -53),  \* 0.53789069824926
      Num(0, <<22996, 3409, 8357, 225>>, -56),   \* 0.10998781180464984
      Num(0, <<3636, 32104, 8691, 226>>, -61),   \* 0.003452533846599848
      Num(0, <<24636, 4283, 28418, 249>>, -54),  \* 0.48802197758732624
      Num(0, <<28090, 22512, 17426, 246>>, -56), \* 0.12037686537262618
      Num(0, <<27107, 1255, 17697, 147>>, -53),  \* 0.5763284013658531
      Num(0, <<19812, 366, 21463, 246>>, -56),   \* 0.12043701128941603
      Num(0, <<6493, 24465, 28729, 151>>, -58),  \* 0.018539643833855524
      Num(0, <<28710, 29448, 5792, 251>>, -59),  \* 0.015330614333429148
      Num(0, <<26812, 5937, 26386, 137>>, -55),  \* 0.13457543197893596
      Num(0, <<3047, 8558, 16987, 181>>, -57),   \* 0.044316018083485
      Num(0, <<25706, 4827, 6945, 184>>, -53),   \* 0.7195779260793078
      Num(0, <<25018, 29513, 31614, 133>>, -58), \* 0.016353126245322015
      Num(0, <<181, 21666, 22498, 149>>, -57),   \* 0.0365445812135489
      Num(0, <<12888, 1361, 14028, 142>>, -55),  \* 0.1390899432166346
      Num(0, <<19863, 11677, 11102, 203>>, -54), \* 0.39714612700773827
      Num(0, <<22534, 15723, 25257, 195>>, -59), \* 0.011948901191072291
      Num(0, <<31562, 1435, 7009, 135>>, -57),   \* 0.03301120582090407
      Num(0, <<29197, 16885, 323, 228>>, -60),   \* 0.006958309109617489
      Num(0, <<24220, 4655, 12152, 198>>, -57),  \* 0.04843038426400634
      Num(0, <<11284, 25852, 23972, 180>>, -56), \* 0.08824784739242403
      Num(0, <<17892, 10972, 28040, 201>>, -56), \* 0.09856236479961172
      Num(0, <<12809, 17754, 474, 135>>, -60),   \* 0.004120314998385507
      Num(0, <<22320, 10206, 11458, 224>>, -60), \* 0.00684660888415127
      Num(0, <<3289, 17186, 9617, 178>>, -53),   \* 0.6964589982602788
      Num(0, <<29909, 17587, 689, 180>>, -56),   \* 0.08790089989811929
      Num(0, <<19584, 18937, 1231, 143>>, -56),  \* 0.06984257069125199
      Num(0, <<10128, 20482, 31804, 152>>, -56), \* 0.07469267584488493
      Num(0, <<30964, 29833, 25214, 167>>, -54), \* 0.3276748007809964
      Num(0, <<19040, 3425, 6751, 167>>, -53),   \* 0.6531485443759486
      Num(0, <<17209, 13966, 31072, 189>>, -57), \* 0.04637408574092778
      Num(0, <<14451, 26271, 22645, 226>>, -56), \* 0.11068901124210288
      Num(0, <<3039, 11970, 1636, 188>>, -53),   \* 0.7345700699446488
      Num(0, <<20768, 23650, 9780, 160>>, -60),  \* 0.004891921506971181
      Num(0, <<8382, 6868, 26369, 218>>, -57),   \* 0.05341912217142085
      Num(0, <<274, 18941, 28481, 229>>, -55),   \* 0.2244816296706707
      Num(0, <<20792, 1681, 14404, 247>>, -54),  \* 0.4832804233622201
      Num(0, <<31676, 9957, 4091, 192>>, -57),   \* 0.0469054825894015
      Num(0, <<25402, 32622, 21424, 201>>, -57), \* 0.0492318942812688
      Num(0, <<2858, 4435, 11076, 147>>, -53),   \* 0.5755391282258178
      Num(0, <<5403, 15930, 20329, 196>>, -53),  \* 0.7680484636008801
      Num(0, <<31332, 6643, 1501, 157>>, -53),   \* 0.6134602073141875
      Num(0, <<9989, 13820, 24566, 170>>, -54),  \* 0.3334955228425403
      Num(0, <<19627, 7899, 3278, 234>>, -57),   \* 0.05715333104935757
      Num(0, <<2910, 3566, 20093, 204>>, -56),   \* 0.09990878565353742
      Num(0, <<23168, 7628, 32029, 130>>, -56),  \* 0.06395383526101206
      Num(0, <<20806, 30346, 29048, 139>>, -55), \* 0.13660791296082148
      Num(0, <<31555, 12058, 7810, 169>>, -56),  \* 0.08263591480270542
      Num(0, <<7550, 11041, 23782, 203>>, -56),  \* 0.09947547818648236
      Num(0, <<31662, 25221, 19772, 199>>, -53), \* 0.7797008478299767
      Num(0, <<10846, 20479, 4035, 204>>, -53),  \* 0.7973560839867095
      Num(0, <<897, 501, 3170, 232>>, -53),      \* 0.906627895270603
      Num(0, <<11409, 8179, 32423, 254>>, -55),  \* 0.24901316313785007
      Num(0, <<1664, 14293, 2396, 221>>, -60),   \* 0.006746616620746715
      Num(0, <<8572, 23944, 7010, 137>>, -53),   \* 0.5359919942284672
      Num(0, <<18758, 12955, 27034, 133>>, -54), \* 0.2613770005329069
      Num(0, <<30469, 11080, 2060, 138>>, -57),  \* 0.03370675696554141
      Num(0, <<6478, 12807, 19634, 200>>, -54),  \* 0.3917953008916769
      Num(0, <<28949, 2773, 20189, 219>>, -54),  \* 0.42893773821903497
      Num(0, <<24174, 12460, 25008, 183>>, -59), \* 0.011216015331952902
      Num(0, <<13833, 20594, 32541, 147>>, -55), \* 0.14452450360333582
      Num(0, <<26942, 27651, 14451, 158>>, -53), \* 0.6189102940400415
      Num(0, <<7347, 23954, 21171, 196>>, -55),  \* 0.1920372167535099
      Num(0, <<14205, 4504, 6815, 130>>, -56),   \* 0.06357811596191527
      Num(0, <<32542, 21805, 3613, 158>>, -58),  \* 0.019300571327902742
      Num(0, <<24495, 6808, 20026, 241>>, -57),  \* 0.05898709750016395
      Num(0, <<30284, 31971, 11725, 155>>, -58), \* 0.018964581101036423
      Num(0, <<17698, 8894, 28980, 192>>, -62),  \* 0.0014715912452525977
      Num(0, <<17019, 9481, 25312, 239>>, -58),  \* 0.029269100313458623
      Num(0, <<20, 23544, 31095, 217>>, -55),    \* 0.2128407871277892
      Num(0, <<14665, 22484, 3223, 217>>, -53),  \* 0.8480405433381658
      Num(0, <<30076, 7921, 26442, 151>>, -55),  \* 0.14824897771351775
      Num(0, <<3412, 5991, 10824, 145>>, -55),   \* 0.14192414828640187
      Num(0, <<10497, 28211, 19940, 178>>, -57), \* 0.04360560224161426
      Num(0, <<12137, 9819, 25228, 136>>, -56),  \* 0.06678218095993106
      Num(0, <<12693, 29599, 18926, 198>>, -55), \* 0.1939234406739955
      Num(0, <<16296, 21569, 31287, 150>>, -53), \* 0.5896672795115494
      Num(0, <<29820, 21526, 16456, 156>>, -53), \* 0.6113367863832901
      Num(0, <<25641, 19292, 4811, 217>>, -54),  \* 0.42411491803938134
      Num(0, <<30973, 28553, 32030, 150>>, -54), \* 0.29487793871147955
      Num(0, <<13041, 27120, 6129, 216>>, -54),  \* 0.4222403661995449
      Num(0, <<13583, 6608, 6719, 143>>, -54),   \* 0.27969737062888184
      Num(0, <<7390, 2322, 3628, 155>>, -60),    \* 0.004733603513677324
      Num(0, <<26878, 28235, 11633, 141>>, -60), \* 0.004313813393645781
      Num(0, <<1668, 4241, 17480, 132>>, -54),   \* 0.2588543969051005
      Num(0, <<22087, 14170, 23302, 154>>, -53), \* 0.6043403664177242
      Num(0, <<28370, 12728, 28130, 252>>, -53), \* 0.9877284036224074
      Num(0, <<20201, 5195, 18771, 139>>, -53),  \* 0.5452064464757004
      Num(0, <<17476, 27959, 24498, 131>>, -56), \* 0.06432990511145059
      Num(0, <<23148, 8711, 16662, 251>>, -62),  \* 0.001918857513428708
      Num(0, <<14010, 17545, 17747, 146>>, -57), \* 0.03577676069322196
      Num(0, <<13899, 15397, 7547, 187>>, -54),  \* 0.36568423926187127
      Num(0, <<4153, 2393, 27314, 217>>, -57),   \* 0.0531820213275584
      Num(0, <<12818, 29678, 7675, 175>>, -57),  \* 0.04278179932916627
      Num(0, <<31887, 27450, 24437, 224>>, -57), \* 0.05486957607967568
      Num(0, <<9043, 72, 15061, 166>>, -59),     \* 0.01015988924020098
      Num(0, <<24925, 29966, 2532, 250>>, -63),  \* 0.0009539691864644363
      Num(0, <<28047, 22120, 18248, 180>>, -54), \* 0.35265020579546386
      Num(0, <<4808, 20739, 15528, 204>>, -56),  \* 0.0998407696620901
      Num(0, <<28746, 28507, 8903, 201>>, -56),  \* 0.09827720925199049
      Num(0, <<30032, 25691, 18266, 170>>, -59), \* 0.010410001099212224
      Num(0, <<22726, 29541, 16701, 150>>, -56), \* 0.07349106522710533
      Num(0, <<12222, 17417, 31498, 192>>, -59), \* 0.011777420586973505
      Num(0, <<20972, 4517, 29690, 176>>, -53),  \* 0.6910393402418413
      Num(0, <<26014, 29271, 15107, 210>>, -53), \* 0.8221135012274094
      Num(0, <<7498, 13229, 28660, 181>>, -55),  \* 0.17761195909154487
      Num(0, <<16150, 11616, 26127, 178>>, -54), \* 0.34921356168432405
      Num(0, <<11207, 6467, 21324, 162>>, -53),  \* 0.635354542418434
      Num(0, <<26295, 23298, 5526, 254>>, -57),  \* 0.06205289595591295
      Num(0, <<23226, 17278, 23894, 196>>, -53), \* 0.7684734496241028
      Num(0, <<27867, 4057, 23064, 210>>, -57)   \* 0.05144137236353582
    >>

\* The draws for n states, as row n of positions in BetaDraws42
BetaRows42 ==
    <<
      <<1>>,
      <<2, 3>>,
      <<1, 4, 5>>,
      <<6, 3, 7, 8>>,
      <<4, 5, 9, 10, 11>>,
      <<3, 7, 8, 12, 13, 14>>,
      <<4, 5, 9, 10, 11, 15, 16>>,
      <<3, 7, 8, 12, 13, 14, 17, 18>>,
      <<5, 9, 10, 19, 20, 21, 22, 23, 24>>,
      <<7, 8, 12, 25, 26, 27, 28, 18, 29, 30>>,
      <<5, 9, 10, 19, 20, 21, 22, 23, 24, 31, 32>>,
      <<7, 8, 12, 25, 26, 27, 28, 18, 29, 30, 33, 34>>,
      <<5, 9, 10, 19, 20, 21, 22, 23, 24, 31, 32, 35, 36>>,
      <<37, 38, 39, 40, 17, 41, 42, 43, 44, 45, 46, 47, 48, 49>>,
      <<50, 51, 52, 53, 16, 54, 55, 31, 56, 57, 58, 59, 60, 61, 62>>,
      <<8, 12, 25, 63, 64, 41, 42, 43, 44, 45, 46, 47, 48, 49, 65, 66>>,
      <<9, 10, 19, 67, 68, 54, 55, 31, 56, 57, 58, 59, 60, 61, 62, 69, 70>>,
      <<38, 39, 40, 71, 28, 41, 42, 43, 44, 45, 46, 47, 48, 49, 65, 66, 72,
        73>>,
      <<51, 52, 53, 74, 75, 76, 77, 78, 57, 79, 80, 60, 61, 81, 82, 83, 84,
        85, 86>>,
      <<12, 25, 63, 87, 42, 88, 89, 90, 45, 91, 92, 48, 49, 93, 94, 95, 96,
        97, 98, 99>>,
      <<10, 19, 67, 74, 75, 76, 77, 78, 57, 79, 80, 60, 61, 81, 82, 83, 84,
        85, 86, 100, 101>>,
      <<39, 40, 71, 87, 42, 88, 89, 90, 45, 91, 92, 48, 49, 93, 94, 95, 96,
        97, 98, 99, 102, 103>>,
      <<52, 53, 74, 104, 105, 106, 107, 57, 79, 108, 109, 60, 61, 81, 82,
        83, 84, 85, 86, 100, 101, 110, 111>>,
      <<25, 63, 87, 112, 113, 114, 115, 45, 91, 116, 117, 93, 118, 119,
        120, 121, 122, 123, 124, 125, 126, 127, 128, 129>>,
      <<19, 67, 74, 104, 105, 106, 107, 57, 79, 108, 109, 60, 61, 81, 82,
        83, 84, 85, 86, 100, 101, 110, 111, 130, 131>>,
      <<40, 71, 87, 112, 113, 114, 115, 45, 91, 116, 117, 93, 118, 119,
        120, 121, 122, 123, 124, 125, 126, 127, 128, 129, 132, 133>>,
      <<53, 74, 104, 134, 135, 32, 136, 57, 79, 108, 109, 60, 61, 81, 82,
        83, 84, 85, 86, 100, 101, 110, 111, 130, 131, 137, 138>>,
      <<63, 87, 112, 139, 140, 141, 142, 91, 116, 143, 144, 118, 119, 145,
        98, 99, 102, 103, 146, 147, 148, 149, 150, 151, 152, 153, 154, 155>>,
      <<67, 74, 104, 134, 135, 32, 136, 57, 79, 108, 109, 60, 61, 81, 82,
        83, 84, 85, 86, 100, 101, 110, 111, 130, 131, 137, 138, 156, 157>>,
      <<71, 87, 112, 139, 140, 141, 142, 91, 116, 143, 144, 118, 119, 145,
        98, 99, 102, 103, 146, 147, 148, 149, 150, 151, 152, 153, 154, 155,
        158, 159>>,
      <<74, 104, 134, 160, 161, 162, 163, 164, 165, 166, 167, 81, 168, 169,
        170, 171, 172, 100, 101, 110, 111, 130, 131, 173, 174, 175, 157,
        176, 177, 178, 179>>,
      <<87, 112, 139, 180, 181, 141, 142, 91, 116, 143, 144, 118, 119, 145,
        98, 99, 102, 103, 146, 147, 148, 149, 150, 151, 152, 153, 154, 155,
        158, 159, 182, 183>>,
      <<74, 104, 134, 160, 161, 162, 163, 164, 165, 166, 167, 81, 168, 169,
        170, 171, 172, 100, 101, 110, 111, 130, 131, 173, 174, 175, 157,
        176, 177, 178, 179, 184, 185>>,
      <<87, 112, 139, 180, 181, 141, 142, 91, 116, 143, 144, 118, 119, 145,
        98, 99, 102, 103, 146, 147, 148, 149, 150, 151, 152, 153, 154, 155,
        158, 159, 182, 183, 186, 187>>,
      <<74, 104, 134, 160, 161, 162, 163, 164, 165, 166, 167, 81, 168, 169,
        170, 171, 172, 100, 101, 110, 111, 130, 131, 173, 174, 175, 157,
        176, 177, 178, 179, 184, 185, 188, 189>>,
      <<87, 112, 139, 180, 181, 141, 142, 91, 116, 143, 144, 118, 119, 145,
        98, 99, 102, 103, 146, 147, 148, 149, 150, 151, 152, 153, 154, 155,
        158, 159, 182, 183, 186, 187, 190, 191>>,
      <<192, 193, 194, 35, 195, 58, 196, 165, 166, 197, 198, 199, 200, 201,
        202, 203, 204, 205, 206, 207, 208, 209, 210, 173, 174, 175, 157,
        176, 177, 178, 179, 184, 185, 188, 189, 211, 212>>,
      <<213, 139, 180, 34, 142, 46, 214, 215, 143, 216, 66, 119, 145, 217,
        218, 103, 146, 147, 148, 149, 150, 151, 152, 219, 220, 221, 158,
        159, 182, 183, 186, 222, 223, 224, 225, 226, 227, 228>>,
      <<104, 134, 160, 35, 195, 58, 196, 165, 166, 197, 198, 199, 200, 201,
        202, 203, 204, 205, 206, 207, 208, 209, 210, 173, 174, 175, 157,
        176, 177, 178, 179, 184, 185, 188, 189, 211, 212, 229, 230>>,
      <<112, 139, 180, 34, 142, 46, 214, 215, 143, 216, 66, 119, 145, 217,
        218, 103, 146, 147, 148, 149, 150, 151, 152, 219, 220, 221, 158,
        159, 182, 183, 186, 222, 223, 224, 225, 226, 227, 228, 231, 232>>,
      <<193, 194, 35, 36, 196, 233, 234, 166, 197, 235, 69, 200, 201, 236,
        172, 100, 101, 110, 111, 130, 131, 173, 174, 237, 238, 239, 177,
        178, 179, 184, 185, 240, 241, 242, 212, 243, 244, 245, 246, 247,
        248>>,
      <<139, 180, 34, 249, 250, 92, 251, 143, 216, 252, 253, 145, 217, 254,
        255, 256, 257, 149, 150, 151, 152, 219, 220, 258, 259, 260, 182,
        183, 186, 222, 223, 261, 262, 226, 227, 263, 264, 265, 266, 267,
        268, 269>>,
      <<134, 160, 35, 36, 196, 233, 234, 166, 197, 235, 69, 200, 201, 236,
        172, 100, 101, 110, 111, 130, 131, 173, 174, 237, 238, 239, 177,
        178, 179, 184, 185, 240, 241, 242, 212, 243, 244, 245, 246, 247,
        248, 270, 271>>,
      <<139, 180, 34, 249, 250, 92, 251, 143, 216, 252, 253, 145, 217, 254,
        255, 256, 257, 149, 150, 151, 152, 219, 220, 258, 259, 260, 182,
        183, 186, 222, 223, 261, 262, 226, 227, 263, 264, 265, 266, 267,
        268, 269, 272, 273>>,
      <<194, 35, 36, 59, 274, 275, 276, 235, 277, 278, 279, 236, 280, 281,
        282, 207, 208, 209, 210, 173, 174, 237, 238, 283, 284, 285, 179,
        184, 185, 240, 241, 286, 287, 288, 289, 290, 291, 292, 293, 294,
        295, 296, 297, 298, 299>>,
      <<300, 34, 249, 301, 302, 117, 65, 252, 303, 304, 305, 254, 306, 307,
        128, 129, 132, 308, 309, 154, 155, 158, 159, 182, 183, 310, 311,
        312, 313, 314, 315, 316, 317, 318, 264, 319, 320, 321, 268, 269,
        272, 322, 323, 324, 325, 326>>,
      <<160, 35, 36, 59, 274, 275, 276, 235, 277, 278, 279, 236, 280, 281,
        282, 207, 208, 209, 210, 173, 174, 237, 238, 283, 284, 285, 179,
        184, 185, 240, 241, 286, 287, 288, 289, 290, 291, 292, 293, 294,
        295, 296, 297, 298, 299, 327, 328>>,
      <<180, 34, 249, 301, 302, 117, 65, 252, 303, 304, 305, 254, 306, 307,
        128, 129, 132, 308, 309, 154, 155, 158, 159, 182, 183, 310, 311,
        312, 313, 314, 315, 316, 317, 318, 264, 319, 320, 321, 268, 269,
        272, 322, 323, 324, 325, 326, 329, 330>>,
      <<35, 36, 59, 60, 331, 198, 332, 333, 334, 335, 203, 280, 281, 336,
        337, 130, 131, 173, 174, 237, 238, 283, 284, 338, 339, 340, 341,
        342, 343, 344, 345, 229, 230, 290, 291, 346, 347, 270, 271, 348,
        349, 350, 351, 327, 328, 352, 353, 354, 355>>,
      <<34, 249, 301, 356, 357, 117, 65, 252, 303, 304, 305, 254, 306, 307,
        128, 129, 132, 308, 309, 154, 155, 158, 159, 182, 183, 310, 311,
        312, 313, 314, 315, 316, 317, 318, 264, 319, 320, 321, 268, 269,
        272, 322, 323, 324, 325, 326, 329, 330, 358, 359>>
    >>

\* The words of the generator taken by then, for 1 to 50 states
BetaWords42 ==
    <<14, 24, 34, 40, 58, 60, 78, 84, 94, 100, 106, 116, 126, 156, 170,
      172, 182, 184, 206, 200, 218, 212, 234, 240, 250, 256, 262, 276, 274,
      288, 302, 300, 314, 312, 330, 328, 346, 360, 358, 372, 394, 404, 406,
      420, 434, 452, 450, 468, 498, 496>>

\* The states of the chain after np.random.seed(42): those of n variants are
\* the first n.
BetaStates42 ==
    <<1, 1, 1, 1, 0, 0, 0, 1, 1, 1, 0, 1, 1, 1, 0, 0, 0, 0, 0, 0, 0, 0, 0,
      0, 0, 1, 0, 0, 0, 0, 0, 0, 0, 1, 1, 1, 1, 0, 0, 0, 0, 0, 0, 1, 1, 1,
      1, 1, 1, 0>>

\* The draws of `for state in states` from the generator that has given the
\* states, for as many states as BetaRows42 has rows for.
BetaOutcomes(g, ss) ==
    IF /\ Len(ss) \in 1..Len(BetaWords42)
       /\ g = [seed |-> 42, pos |-> 2 * Len(ss)]
       /\ ss = SubSeq(BetaStates42, 1, Len(ss))
    THEN {[i \in 1..Len(ss) |-> BetaDraws42[BetaRows42[Len(ss)][i]]]}
    ELSE {}

\* The generator after the draws of n states
AfterBetas(g, n) == [g EXCEPT !.pos = @ + BetaWords42[n] - 2 * n]

\* min(a, b) of Python on floats
PyMin(a, b) == IF FloatLT(b, a) THEN b ELSE a

\* The 0.5 of `* 0.5` and of min(maf, 0.5)
MafCap == PyFloat("0.5")

\* The draw itself appended, neither halved nor capped.
EmitDraw(state, b) == b

\* maf = beta(1, 20) for rare, beta(2, 2) * 0.5 for common;
\* maf_values.append(min(maf, 0.5))
Emit(state, b) == PyMin(IF state = 0 THEN b ELSE FMul(b, MafCap), MafCap)

\* for state in states: ...; return np.array(maf_values)
MafEmit ==
    /\ pc = "chain" /\ strategy = "maf"
    /\ Len(states) >= Len(snp_list)
    /\ \E o \in BetaOutcomes(rng, states) :
          maf_values' = [i \in 1..Len(states) |-> Emit(states[i], o[i])]
    /\ rng' = AfterBetas(rng, Len(states))
    /\ pc' = "cluster"
    /\ UNCHANGED <<libm, graphVars, rowVars, states, ld_matrix, clusters,
                   strategy, file, pos, batch_size, lines, r2_threshold, k,
                   missing_rate, snp_neighbors, unique_snps, chunks, snp_list,
                   seed_snps, masked_snps, mask_sets, stage2, masked_indices,
                   mask_df, runs, first_out>>

\* np.eye(n_snps)
Eye(n) ==
    [i \in 1..n |-> [j \in 1..n |-> IF i = j THEN IntToFloat(1) ELSE Zero(0)]]

\* `for _, row in ld_data.iter_rows(named=True)`: a row is a dict of the
\* columns, and binding it to two names iterates over its keys, which
\* raises ValueError unless there are two of them.
UnpackRaises(names) == Len(names) # 2

\* AgglomerativeClustering.fit_predict needs at least two samples.
FitPredictRaises(n_snps) == n_snps < 2

\* create_ld_clusters(ld_data, snp_positions).  The frame has seven columns,
\* so the first row of a frame that has rows raises in the loop header,
\* with ld_matrix still the identity; a frame without rows comes with no
\* variants, and fit_predict raises on the empty distance matrix.  No call
\* returns.
MafCreateLdClusters ==
    /\ pc = "cluster" /\ strategy = "maf"
    /\ ld_matrix' = Eye(Len(snp_list))
    /\ \/ LdData # <<>> /\ UnpackRaises(Schema)
       \/ LdData = <<>> /\ FitPredictRaises(Len(snp_list))
    /\ pc' = "raised"
    /\ UNCHANGED <<libm, graphVars, rowVars, states, maf_values, clusters,
                   strategy, file, pos, batch_size, lines, r2_threshold, k,
                   missing_rate, snp_neighbors, unique_snps, chunks, snp_list,
                   seed_snps, masked_snps, mask_sets, stage2, masked_indices,
                   mask_df, rng, runs, first_out>>

-----------------------------------------------------------------------------
(* RowwiseMissingness *)

\* str(n) for n >= 0
RECURSIVE Str(_)
Str(n) ==
    IF n < 10 THEN SubSeq(Digits, n + 1, n + 1)
    ELSE Str(n \div 10) \o SubSeq(Digits, (n % 10) + 1, (n % 10) + 1)

\* f"SAMPLE_{i:04d}"
SampleId(i) == "SAMPLE_" \o SubSeq("0000", 1, 4 - Len(Str(i))) \o Str(i)

\* [f"SAMPLE_{i:04d}" for i in range(n)]
SampleIds(n) == [i \in 1..n |-> SampleId(i - 1)]

\* snp_list = sorted(list(unique_snps));
\* p=[0.25, 0.5, 0.25] of the genotypes 0, 1 and 2
GenotypeP == <<PyFloat("0.25"), PyFloat("0.5"), PyFloat("0.25")>>

\* simulate_sample_data(snp_list, n_samples): np.random.seed(42); sample_ids;
\* for each sample np.random.choice([0, 1, 2], size=len(snp_list),
\* p=[0.25, 0.5, 0.25]), which takes len(snp_list) doubles.
RowSimulate ==
    /\ pc = "simulate" /\ strategy = "row"
    /\ snp_list' = Sorted(unique_snps)
    /\ sample_ids' = SampleIds(n_samples)
    /\ LET g == NpRandomSeed(42)
           len == Cardinality(unique_snps)
       IN  /\ genotype_data' =
                  [i \in 1..n_samples |->
                      ChoiceP([g EXCEPT !.pos = 2 * len * (i - 1)],
                              GenotypeP, len).v]
           /\ rng' = [g EXCEPT !.pos = 2 * len * n_samples]
    /\ pc' = "classify"
    /\ UNCHANGED <<libm, mafVars, graphVars, n_samples, sample_categories,
                   missing_data, sample_missingness, pattern_analysis,
                   strategy, file, pos, batch_size, lines, r2_threshold, k,
                   missing_rate, snp_neighbors, unique_snps, chunks,
                   seed_snps, masked_snps, mask_sets, stage2, masked_indices,
                   mask_df, runs, first_out>>

\* int(n * 0.7) and int(n * 0.2): the product is a double, and int() drops
\* its fraction.
IntTimes(n, rate) == Trunc(FMul(IntToFloat(n), rate))

\* The shares 0.7 and 0.2 of the low and the medium tier
LowShare == PyFloat("0.7")

MediumShare == PyFloat("0.2")

IntTimes07(n) == IntTimes(n, LowShare)

IntTimes02(n) == IntTimes(n, MediumShare)

\* [c] * n
Repeat(c, n) == [i \in 1..n |-> c]

\* sample_categories = ['low'] * n_low + ['medium'] * n_medium
\*                     + ['high'] * n_high, with n_high = n - n_low - n_medium
Categories(n, n_low, n_medium) ==
    Repeat("low", n_low) \o Repeat("medium", n_medium)
        \o Repeat("high", n - n_low - n_medium)

\* np.random.seed(42); n_samples = len(sample_ids); n_low, n_medium, n_high;
\* sample_categories = ['low'] * n_low + ['medium'] * n_medium
\*                     + ['high'] * n_high
RowClassify ==
    /\ pc = "classify" /\ strategy = "row"
    /\ sample_categories' =
           Categories(Len(sample_ids), IntTimes07(Len(sample_ids)),
                      IntTimes02(Len(sample_ids)))
    /\ rng' = NpRandomSeed(42)
    /\ pc' = "shuffle"
    /\ UNCHANGED <<libm, mafVars, graphVars, n_samples, sample_ids, genotype_data,
                   missing_data, sample_missingness, pattern_analysis,
                   strategy, file, pos, batch_size, lines, r2_threshold, k,
                   missing_rate, snp_neighbors, unique_snps, chunks, snp_list,
                   seed_snps, masked_snps, mask_sets, stage2, masked_indices,
                   mask_df, runs, first_out>>

\* np.random.shuffle(sample_categories); missing_data = {};
\* sample_missingness = {}
RowShuffle ==
    /\ pc = "shuffle" /\ strategy = "row"
    /\ LET Store(o) == sample_categories' = o.v /\ rng' = o.g
       IN  Store(Shuffle(rng, sample_categories))
    /\ missing_data' = <<>>
    /\ sample_missingness' = <<>>
    /\ pc' = "apply"
    /\ UNCHANGED <<libm, mafVars, graphVars, n_samples, sample_ids, genotype_data,
                   pattern_analysis,
                   strategy, file, pos, batch_size, lines, r2_threshold, k,
                   missing_rate, snp_neighbors, unique_snps, chunks, snp_list,
                   seed_snps, masked_snps, mask_sets, stage2, masked_indices,
                   mask_df, runs, first_out>>

\* RowwiseMissingness(high_missingness_threshold=0.3)
high_missingness_threshold == PyFloat("0.3")

\* np.random.uniform(0.0, 0.1), (0.1, 0.3) and (0.3, 0.6)
LowBounds == <<PyFloat("0.0"), PyFloat("0.1")>>

MediumBounds == <<PyFloat("0.1"), PyFloat("0.3")>>

HighBounds == <<PyFloat("0.3"), PyFloat("0.6")>>

\* The bounds of np.random.uniform for a category
RateBounds(category) ==
    IF category = "low" THEN LowBounds
    ELSE IF category = "medium" THEN MediumBounds ELSE HighBounds

\* The body of `for i, sample_id in enumerate(sample_ids)` for one sample,
\* from the generator g: the genotypes with -9 at the indices drawn, the
\* entry of sample_missingness, and the generator after.
\* sample_missingness[sample_id] = {...}
SampleInfo(category, n_total, n_missing, missingness_pct) ==
    [n_total |-> n_total,
     n_missing |-> n_missing,
     missingness_pct |-> missingness_pct,
     category |-> category,
     high_missingness |->
         FloatGE(missingness_pct,
                 FMul(high_missingness_threshold, IntToFloat(100)))]

\* missingness_pct = (n_missing / len(snp_list)) * 100
MissingnessPct(n_missing, len) ==
    FMul(FDiv(IntToFloat(n_missing), IntToFloat(len)), IntToFloat(100))

\* n_missing = np.sum(original_genotypes == -9)
NMissing(original_genotypes) ==
    Cardinality({j \in 1..Len(original_genotypes) : original_genotypes[j] = -9})

\* The genotypes of one sample after the masking, its entry of
\* sample_missingness, and the generator after.
SampleEntry(category, original_genotypes, after) ==
    [genotypes |-> original_genotypes,
     info |-> SampleInfo(category, Len(original_genotypes),
                         NMissing(original_genotypes),
                         MissingnessPct(NMissing(original_genotypes),
                                        Len(original_genotypes))),
     g |-> after]

\* original_genotypes[missing_indices] = -9
Masked(genotypes, missing_indices) ==
    [j \in 1..Len(genotypes) |->
        IF InSeq(j - 1, missing_indices) THEN -9 ELSE genotypes[j]]

MaskedSample(category, genotypes, missing_indices) ==
    SampleEntry(category, Masked(genotypes, missing_indices.v),
                missing_indices.g)

\* if n_to_mask > 0: missing_indices = np.random.choice(len(snp_list),
\* size=n_to_mask, replace=False)
SizedSample(category, genotypes, len, after, n_to_mask) ==
    IF n_to_mask > 0
    THEN MaskedSample(category, genotypes, Choice(after, len, n_to_mask))
    ELSE SampleEntry(category, genotypes, after)

\* n_to_mask = int(len(snp_list) * sample_missing_rate)
RatedSample(category, genotypes, len, sample_missing_rate) ==
    SizedSample(category, genotypes, len, sample_missing_rate.g,
                Trunc(FMul(IntToFloat(len), sample_missing_rate.v)))

\* sample_missing_rate = np.random.uniform(low, high)
UniformRate(g, bounds) == Uniform(g, bounds[1], bounds[2])

ApplyOne(g, category, genotypes, len) ==
    RatedSample(category, genotypes, len, UniformRate(g, RateBounds(category)))

\* One turn of the loop over the samples.
RowApplyOne ==
    /\ pc = "apply" /\ strategy = "row"
    /\ Len(missing_data) < Len(sample_ids)
    /\ LET Store(o) ==
               /\ missing_data' = Append(missing_data, o.genotypes)
               /\ sample_missingness' = Append(sample_missingness, o.info)
               /\ rng' = o.g
       IN  Store(ApplyOne(rng, sample_categories[Len(missing_data) + 1],
                          genotype_data[Len(missing_data) + 1], Len(snp_list)))
    /\ UNCHANGED <<libm, mafVars, graphVars, n_samples, sample_ids, genotype_data,
                   sample_categories, pattern_analysis,
                   strategy, pc, file, pos, batch_size, lines, r2_threshold,
                   k, missing_rate, snp_neighbors, unique_snps, chunks,
                   snp_list, seed_snps, masked_snps, mask_sets, stage2,
                   masked_indices, mask_df, runs, first_out>>

\* sum(1 for info in sample_missingness.values() if ...)
CountInfos(infos, Test(_)) == Cardinality({i \in 1..Len(infos) : Test(infos[i])})

\* assess_missing_patterns(sample_missingness); the 0 that cv is when the
\* mean is not above 0 is held as 0.0.
\* info['missingness_pct'] < 10, 10 <= ... < 30, ... >= 30
LowMiss(info) == FloatLT(info.missingness_pct, IntToFloat(10))

MediumMiss(info) ==
    /\ FloatLE(IntToFloat(10), info.missingness_pct)
    /\ FloatLT(info.missingness_pct, IntToFloat(30))

HighMiss(info) == FloatGE(info.missingness_pct, IntToFloat(30))

\* The dictionary that assess_missing_patterns returns
PatternStats(infos, mean_missingness, std_missingness, cv) ==
    [mean_missingness |-> mean_missingness,
     std_missingness |-> std_missingness,
     cv |-> cv,
     pattern_type |-> IF FloatGT(cv, IntToFloat(1)) THEN "MNAR" ELSE "MAR",
     low_miss_samples |-> CountInfos(infos, LowMiss),
     medium_miss_samples |-> CountInfos(infos, MediumMiss),
     high_miss_samples |-> CountInfos(infos, HighMiss)]

\* cv = std_missingness / mean_missingness if mean_missingness > 0 else 0
PatternsOf(infos, mean_missingness, std_missingness) ==
    PatternStats(infos, mean_missingness, std_missingness,
                 IF FloatGT(mean_missingness, Zero(0))
                 THEN FDiv(std_missingness, mean_missingness) ELSE Zero(0))

\* missingness_values = [info['missingness_pct'] for info in ...]
MissingnessValues(infos) == [i \in 1..Len(infos) |-> infos[i].missingness_pct]

AssessMissingPatterns(infos) ==
    PatternsOf(infos, NpMean(MissingnessValues(infos)),
               NpStd(MissingnessValues(infos)))

\* return missing_data, sample_missingness;
\* pattern_stats = self.assess_missing_patterns(sample_missingness)
RowAssess ==
    /\ pc = "apply" /\ strategy = "row"
    /\ Len(missing_data) = Len(sample_ids)
    /\ pattern_analysis' = AssessMissingPatterns(sample_missingness)
    /\ pc' = "table"
    /\ UNCHANGED <<libm, mafVars, graphVars, n_samples, sample_ids, genotype_data,
                   sample_categories, missing_data, sample_missingness,
                   strategy, file, pos, batch_size, lines, r2_threshold, k,
                   missing_rate, snp_neighbors, unique_snps, chunks, snp_list,
                   seed_snps, masked_snps, mask_sets, stage2, masked_indices,
                   mask_df, rng, runs, first_out>>

\* One row of the row-wise table: SAMPLE_ID, N_TOTAL_SNPS, N_MISSING_SNPS,
\* MISSINGNESS_PCT, CATEGORY, HIGH_MISSINGNESS, PATTERN_TYPE.
RowRow(sample_id, info, pattern_type) ==
    <<sample_id, info.n_total, info.n_missing, info.missingness_pct,
      info.category, info.high_missingness, pattern_type>>

RowSchema == <<"SAMPLE_ID", "N_TOTAL_SNPS", "N_MISSING_SNPS",
               "MISSINGNESS_PCT", "CATEGORY", "HIGH_MISSINGNESS",
               "PATTERN_TYPE">>

\* mask_data = [...]; mask_df = pl.DataFrame(mask_data, ...);
\* return mask_df, pattern_stats
RowCreateMask ==
    /\ pc = "table" /\ strategy = "row"
    /\ LET mask_data == [i \in 1..Len(sample_ids) |->
               RowRow(sample_ids[i], sample_missingness[i],
                      pattern_analysis.pattern_type)]
       IN  \E orient \in OrientationsOf(mask_data, RowSchema) :
              \* lists of strings, ints, a float and a boolean taken as
              \* columns: pl.DataFrame raises TypeError
              IF orient = "col" THEN mask_df' = mask_df /\ pc' = "raised"
              ELSE mask_df' = mask_data /\ pc' = "done"
    /\ runs' = runs + 1
    /\ UNCHANGED <<libm, mafVars, graphVars, rowVars,
                   strategy, file, pos, batch_size, lines, r2_threshold, k,
                   missing_rate, snp_neighbors, unique_snps, chunks, snp_list,
                   seed_snps, masked_snps, mask_sets, stage2, masked_indices,
                   rng, first_out>>

-----------------------------------------------------------------------------
(* Inputs *)

MaxLines == 3

\* All files of at most n lines over a set of lines.
Files(alphabet, n) == UNION {[1..m -> alphabet] : m \in 0..n}

\* Rows that pass the filters at some threshold, with a pair read in both
\* directions, a tie in r2, a pair whose two ends are the same variant and
\* a seed with neighbors at 0.95 and 0.85.
KnnAlphabet ==
    { "1 100 rs1 1 200 rs2 0.85\n",
      "1 100 rs1 1 300 rs3 0.95\n",
      "1 200 rs2 1 100 rs1 0.85\n",
      "1 100 rs1 1 400 rs4 0.85\n",
      "1 200 rs2 1 200 rs2 1\n",
      "1 200 rs2 1 300 rs3 0.5\n" }

\* RowwiseMissingness.create_mask_from_ld calls
\* simulate_sample_data(snp_list, n_samples=1000)
PipelineSamples == 1000

\* missing_rate arguments: the literal that float() reads, and the number
\* num / den that the literal writes.  0.1 is the rate of every pipeline.
Rates ==
    { [text |-> "0.0", num |-> 0, den |-> 1],
      [text |-> "0.1", num |-> 1, den |-> 10],
      [text |-> "0.5", num |-> 1, den |-> 2],
      [text |-> "0.58", num |-> 29, den |-> 50],
      [text |-> "1.0", num |-> 1, den |-> 1] }

\* The literals with the doubles they denote
RateValues == {[v |-> PyFloat(r.text), num |-> r.num, den |-> r.den] : r \in Rates}

\* One row of a file whose rows share no variant: the variants at positions
\* 200 i - 100 and 200 i of chromosome 1, with an r2 above every threshold
PairLine(i) ==
    "1 " \o Str(200 * i - 100) \o " rs" \o Str(2 * i - 1) \o " 1 "
         \o Str(200 * i) \o " rs" \o Str(2 * i) \o " 0.9\n"

RECURSIVE PairLines(_)
PairLines(n) == IF n = 0 THEN <<>> ELSE Append(PairLines(n - 1), PairLine(n))

\* A file of 25 rows over 50 variants
LongFile == PairLines(25)

\* The exact floor and ceiling of n times the rate a literal writes
FloorOf(n, rate) ==
    LET r == CHOOSE r \in RateValues : r.v = rate
    IN  (n * r.num) \div r.den

CeilOf(n, rate) ==
    LET r == CHOOSE r \in RateValues : r.v = rate
    IN  (n * r.num + r.den - 1) \div r.den

\* The state a fresh process is in when create_mask_from_ld is entered.
Fresh(s) ==
    /\ strategy = s /\ pc = "read" /\ pos = 0 /\ lines = <<>>
    /\ snp_neighbors = <<>> /\ unique_snps = {} /\ chunks = <<>>
    /\ snp_list = <<>> /\ seed_snps = <<>> /\ masked_snps = {}
    /\ mask_sets = <<>> /\ stage2 = {} /\ masked_indices = {}
    /\ mask_df = <<>> /\ rng = Unseeded
    /\ runs = 0 /\ first_out = <<>> /\ libm = <<>>
    /\ states = <<>> /\ maf_values = <<>> /\ ld_matrix = <<>>
    /\ clusters = <<>> /\ df = <<>> /\ node_ids = <<>> /\ classes = <<>>
    /\ edge_indices = <<>> /\ nodes = <<>>
    /\ n_samples = PipelineSamples
    /\ sample_ids = <<>> /\ genotype_data = <<>> /\ sample_categories = <<>>
    /\ missing_data = <<>> /\ sample_missingness = <<>>
    /\ pattern_analysis = <<>>

InitKnn ==
    /\ Fresh("knn")
    /\ \/ /\ file \in Files(KnnAlphabet, MaxLines)
          /\ batch_size \in {1, 2}
          /\ missing_rate \in {PyFloat("0.5"), PyFloat("1.0")}
       \/ /\ file = LongFile
          /\ batch_size = 10
          /\ missing_rate \in {PyFloat("0.1"), PyFloat("0.58")}
    /\ r2_threshold \in {PyFloat("0.8")}
    /\ k \in {1, 2}

\* The reader's cases: rows above, at and below the thresholds, the header
\* with the padding PLINK writes, a row of six fields, and rows whose R2
\* float() rejects or reads as NaN.
ReadAlphabet ==
    { "1 100 rs1 1 200 rs2 0.9\n",
      "1 200 rs2 1 300 rs3 0.5\n",
      " CHR_A BP_A SNP_A CHR_B BP_B SNP_B R2 \n",
      "1 300 rs3\t1 400 rs4 0.8 0.9\n",
      "1 400 rs4 1 500 rs5\n",
      "1 500 rs5 1 600 rs6 abc\n",
      "1 600 rs6 1 700 rs7 nan\n" }

InitRead ==
    /\ \E s \in {"knn", "maf", "col", "rand", "row", "loader"} : Fresh(s)
    /\ file \in Files(ReadAlphabet, MaxLines)
    /\ batch_size \in {1, 2}
    /\ r2_threshold \in
          IF strategy \in {"knn", "maf"} THEN {PyFloat("0.8"), PyFloat("0.5")}
          ELSE {PyFloat("0.8")}
    /\ k = 1
    /\ missing_rate = PyFloat("0.5")

\* The reader loops alone, up to the point where each loop breaks.
NextRead ==
    \/ ReadBatch
    \/ KnnProcessBatch
    \/ MafProcessBatch
    \/ KeysProcessBatch
    \/ LoaderProcessBatch

SpecRead == InitRead /\ [][NextRead]_vars

NextKnn ==
    \/ ReadBatch
    \/ KnnProcessBatch
    \/ KnnSort
    \/ KnnSelectSeeds
    \/ KnnMask
    \/ KnnCreateMask

SpecKnn == InitKnn /\ [][NextKnn]_vars

\* Rows over five variants on two chromosomes, and the header.
ColAlphabet ==
    { "1 100 rs1 1 200 rs2 0.9\n",
      "1 200 rs2 1 300 rs3 0.5\n",
      "1 1000 rs4 2 50 rs5 0.1\n",
      " CHR_A BP_A SNP_A CHR_B BP_B SNP_B R2 \n" }

InitCol ==
    /\ Fresh("col")
    /\ \/ /\ file \in Files(ColAlphabet, MaxLines)
          /\ batch_size \in {1, 2}
          /\ missing_rate \in {PyFloat("0.0"), PyFloat("0.1"), PyFloat("0.5"),
                              PyFloat("1.0")}
       \/ /\ file = LongFile
          /\ batch_size = 10
          /\ missing_rate \in {PyFloat("0.1"), PyFloat("0.58")}
    /\ r2_threshold = PyFloat("0.8")
    /\ k = 1

NextCol ==
    \/ ReadBatch
    \/ KeysProcessBatch
    \/ ColSelect
    \/ ColCreateMask

SpecCol == InitCol /\ [][NextCol]_vars

\* Rows over five variants on two chromosomes, and the header.
RandAlphabet ==
    { "1 100 rs1 1 200 rs2 0.9\n",
      "1 200 rs2 1 300 rs3 0.5\n",
      "1 1000 rs4 2 50 rs5 0.1\n",
      " CHR_A BP_A SNP_A CHR_B BP_B SNP_B R2 \n" }

InitRand ==
    /\ Fresh("rand")
    /\ \/ /\ file \in Files(RandAlphabet, MaxLines)
          /\ batch_size \in {1, 2}
          /\ missing_rate \in {PyFloat("0.0"), PyFloat("0.1"), PyFloat("0.5"),
                              PyFloat("1.0")}
       \/ /\ file = LongFile
          /\ batch_size = 10
          /\ missing_rate \in {PyFloat("0.1"), PyFloat("0.58")}
    /\ r2_threshold = PyFloat("0.8")
    /\ k = 1

NextRand ==
    \/ ReadBatch
    \/ KeysProcessBatch
    \/ RandGenerate
    \/ RandStage12
    \/ RandBackfill
    \/ RandCreateMask

SpecRand == InitRand /\ [][NextRand]_vars

MaxRuns == 3

\* Files with two variants and with three.
DetFiles ==
    { <<" CHR_A BP_A SNP_A CHR_B BP_B SNP_B R2 \n", "1 100 rs1 1 200 rs2 0.9\n">>,
      <<"1 100 rs1 1 200 rs2 0.85\n", "1 200 rs2 1 100 rs1 0.85\n">>,
      <<"1 100 rs1 1 200 rs2 0.9\n", "1 200 rs2 1 300 rs3 0.85\n">> }

\* The five masking strategies
Strategies == {"knn", "col", "rand", "row", "maf"}

InitDet ==
    /\ \E s \in Strategies : Fresh(s)
    /\ file \in DetFiles
    /\ batch_size = 2
    /\ r2_threshold = PyFloat("0.8")
    /\ k = 1
    /\ missing_rate = PyFloat("0.5")

\* The strategies whose first table the process holds when the next call
\* starts
Returned == DOMAIN first_out \cup (IF pc = "done" THEN {strategy} ELSE {})

\* The strategies the process calls next.  A call of the row-wise pipeline
\* takes PipelineSamples turns of its loop: the process calls it as long as
\* no other strategy has returned a table.
Callable ==
    IF Returned \subseteq {"row"} THEN Strategies ELSE Strategies \ {"row"}

\* The same process calls create_mask_from_ld of some strategy again, on
\* the same file and with the same parameters, after a call that returned
\* or raised: the locals are new, the global generator and the C library
\* are where the last call left them.  first_out keeps the first table each
\* strategy returned.
Start ==
    /\ pc \in {"done", "raised"} /\ runs < MaxRuns
    /\ first_out' = IF pc = "raised" \/ strategy \in DOMAIN first_out
                    THEN first_out
                    ELSE (strategy :> mask_df) @@ first_out
    /\ strategy' \in Callable
    /\ pc' = "read" /\ pos' = 0 /\ lines' = <<>>
    /\ snp_neighbors' = <<>> /\ unique_snps' = {} /\ chunks' = <<>>
    /\ snp_list' = <<>> /\ seed_snps' = <<>> /\ masked_snps' = {}
    /\ mask_sets' = <<>> /\ stage2' = {} /\ masked_indices' = {}
    /\ mask_df' = <<>>
    /\ states' = <<>> /\ maf_values' = <<>> /\ ld_matrix' = <<>>
    /\ clusters' = <<>>
    /\ sample_ids' = <<>> /\ genotype_data' = <<>>
    /\ sample_categories' = <<>> /\ missing_data' = <<>>
    /\ sample_missingness' = <<>> /\ pattern_analysis' = <<>>
    /\ UNCHANGED <<libm, graphVars, n_samples,
                   file, batch_size, r2_threshold, k, missing_rate, rng,
                   runs>>

NextDet ==
    \/ Start
    \/ ReadBatch
    \/ KnnProcessBatch
    \/ KeysProcessBatch
    \/ MafProcessBatch
    \/ KnnSort
    \/ KnnSelectSeeds
    \/ KnnMask
    \/ KnnCreateMask
    \/ ColSelect
    \/ ColCreateMask
    \/ RandGenerate
    \/ RandStage12
    \/ RandBackfill
    \/ RandCreateMask
    \/ RowSimulate
    \/ RowClassify
    \/ RowShuffle
    \/ RowApplyOne
    \/ RowAssess
    \/ RowCreateMask
    \/ MafSort
    \/ MafFirstState
    \/ MafNextState
    \/ MafEmit
    \/ MafCreateLdClusters

SpecDet == InitDet /\ [][NextDet]_vars

\* Rows over three variants of one chromosome, whose keys sort as text in
\* another order than their positions sort as numbers; a row below the
\* threshold, a row whose R2 has an exponent, a row whose R2 is no number,
\* and the header.
GraphAlphabet ==
    { "1 100 rs1 1 200 rs2 0.9\n",
      "1 200 rs2 1 1000 rs3 0.85\n",
      "1 1000 rs3 1 100 rs1 1\n",
      "1 100 rs1 1 1000 rs3 0.5\n",
      "1 100 rs1 1 200 rs2 1e0\n",
      "1 1000 rs3 1 100 rs1 abc\n",
      " CHR_A BP_A SNP_A CHR_B BP_B SNP_B R2 \n" }

InitGraph ==
    /\ Fresh("loader")
    /\ file \in Files(GraphAlphabet, MaxLines)
    /\ batch_size \in {1, 2}
    /\ r2_threshold = PyFloat("0.8")
    /\ k = 1
    /\ missing_rate = PyFloat("0.5")

NextGraph ==
    \/ ReadBatch
    \/ LoaderProcessBatch
    \/ GraphFilter
    \/ GraphCollectNodes
    \/ GraphCreateEdges
    \/ GraphCreateFeatures

SpecGraph == InitGraph /\ [][NextGraph]_vars

\* Rows over six variants of one chromosome, at positions whose text order
\* is not their numeric order; a row below the threshold, and the header.
MafAlphabet ==
    { "1 200 rs2 1 1000 rs3 0.9\n",
      "1 100 rs1 1 200 rs2 0.85\n",
      "1 1000 rs3 1 3000 rs4 0.8\n",
      "1 4000 rs5 1 5000 rs6 0.9\n",
      "1 100 rs1 1 3000 rs4 0.5\n",
      " CHR_A BP_A SNP_A CHR_B BP_B SNP_B R2 \n" }

\* Files of more variants than MaxLines rows hold: 9, 10 and 50 of them
MafLongFiles ==
    { Append(SubSeq(LongFile, 1, 4), "1 100 rs1 1 900 rs9 0.9\n"),
      SubSeq(LongFile, 1, 5),
      LongFile }

InitMaf ==
    /\ Fresh("maf")
    /\ \/ /\ file \in Files(MafAlphabet, MaxLines)
          /\ batch_size \in {1, 2}
       \/ /\ file \in MafLongFiles
          /\ batch_size = 10
    /\ r2_threshold = PyFloat("0.8")
    /\ k = 1
    /\ missing_rate = PyFloat("0.5")

NextMaf ==
    \/ ReadBatch
    \/ MafProcessBatch
    \/ MafSort
    \/ MafFirstState
    \/ MafNextState
    \/ MafEmit
    \/ MafCreateLdClusters

SpecMaf == InitMaf /\ [][NextMaf]_vars

MaxSamples == 100

\* The variant sets the row-wise simulator is run on: none, and three.
TierSnps == {{}, {"1_100", "1_200", "1_300"}}

\* simulate_sample_data is entered with any number of samples, after the
\* reader loop has collected the variants.
InitTier ==
    /\ strategy = "row" /\ pc = "simulate"
    /\ n_samples \in 0..MaxSamples
    /\ unique_snps \in TierSnps
    /\ sample_ids = <<>> /\ genotype_data = <<>> /\ sample_categories = <<>>
    /\ missing_data = <<>> /\ sample_missingness = <<>>
    /\ pattern_analysis = <<>>
    /\ pos = 0 /\ lines = <<>>
    /\ snp_neighbors = <<>> /\ chunks = <<>>
    /\ snp_list = <<>> /\ seed_snps = <<>> /\ masked_snps = {}
    /\ mask_sets = <<>> /\ stage2 = {} /\ masked_indices = {}
    /\ mask_df = <<>> /\ rng = Unseeded
    /\ runs = 0 /\ first_out = <<>> /\ libm = <<>>
    /\ states = <<>> /\ maf_values = <<>> /\ ld_matrix = <<>>
    /\ clusters = <<>> /\ df = <<>> /\ node_ids = <<>> /\ classes = <<>>
    /\ edge_indices = <<>> /\ nodes = <<>>
    /\ file = <<>>
    /\ batch_size = 1
    /\ r2_threshold = PyFloat("0.8")
    /\ k = 1
    /\ missing_rate = PyFloat("0.5")

\* The row-wise simulator after the reader loop.
NextTier ==
    \/ RowSimulate
    \/ RowClassify
    \/ RowShuffle
    \/ RowApplyOne
    \/ RowAssess
    \/ RowCreateMask

SpecTier == InitTier /\ [][NextTier]_vars

\* Rows on chromosomes 1 and 2 and on an unplaced contig, whose name has
\* an underscore.
KeyAlphabet ==
    { "1 100 rs1 1 200 rs2 0.9\n",
      "2 100 rs5 2 300 rs6 0.9\n",
      "chrUn_1 100 rs3 chrUn_1 200 rs4 0.9\n" }

InitKey ==
    /\ Fresh("col")
    /\ file \in Files(KeyAlphabet, MaxLines)
    /\ batch_size \in {1, 2}
    /\ r2_threshold = PyFloat("0.8")
    /\ k = 1
    /\ missing_rate \in {PyFloat("0.0"), PyFloat("0.5")}

SpecKey == InitKey /\ [][NextCol]_vars

\* Two rows that every reader retains and one below the threshold.
BatchAlphabet ==
    { "1 100 rs1 1 200 rs2 0.9\n",
      "1 200 rs2 1 300 rs3 0.85\n",
      "1 300 rs3 1 400 rs4 0.5\n" }

\* Files of as many lines as a frame has columns, read in batches of one
\* line, of three lines and of the whole file.
InitBatch ==
    /\ \E s \in {"knn", "maf", "col", "loader"} : Fresh(s)
    /\ file \in [1..Len(Schema) -> BatchAlphabet]
    /\ batch_size \in {1, 3, Len(Schema)}
    /\ r2_threshold = PyFloat("0.8")
    /\ k = 1
    /\ missing_rate = PyFloat("0.5")

SpecBatch == InitBatch /\ [][NextRead]_vars

-----------------------------------------------------------------------------
(* Properties of the k-nearest pipeline *)

\* Number of lines of the file whose loop body has run.
Processed == IF pc = "process" THEN pos - Len(lines) ELSE pos

\* Number of entries of list l equal to e.
Count(l, e) == Cardinality({i \in 1..Len(l) : l[i] = e})

R2s(l) == [i \in 1..Len(l) |-> l[i][2]]

NonIncreasing(l) == \A i \in 1..Len(l) - 1 : FloatGE(l[i][2], l[i + 1][2])

\* new holds the entries of old, and entries with the same r2 are in the
\* order they have in old.
SameOrderOfTies(old, new) ==
    /\ Len(new) = Len(old)
    /\ \A i \in 1..Len(old) :
          SelectSeq(new, LAMBDA e : e[2] = old[i][2])
              = SelectSeq(old, LAMBDA e : e[2] = old[i][2])

GraphBuilt == pc \in {"select", "mask", "table", "done"}

\* C3: the neighbor graph is symmetric. Every row read so far that passed the
\* filters has put (B, r2) in A's list and (A, r2) in B's list, and every
\* entry (B, r2) of A's list is matched by as many entries (A, r2) of B's
\* list, before the lists are sorted and after.
C3_Symmetry ==
    strategy = "knn" =>
      /\ \A j \in 1..Processed :
            LET parts == Split(Strip(file[j]))
                r == PyFloat(parts[7])
            IN  (LineOk(parts) /\ PassesR2(r, r2_threshold)) =>
                  LET a == Key(parts[1], parts[2])
                      b == Key(parts[4], parts[5])
                  IN  /\ a \in DOMAIN snp_neighbors
                      /\ b \in DOMAIN snp_neighbors
                      /\ Count(snp_neighbors[a], <<b, r>>) >= 1
                      /\ Count(snp_neighbors[b], <<a, r>>) >= 1
      /\ \A a \in DOMAIN snp_neighbors :
            \A i \in 1..Len(snp_neighbors[a]) :
               LET e == snp_neighbors[a][i]
               IN  /\ e[1] \in DOMAIN snp_neighbors
                   /\ e[1] # a =>
                        Count(snp_neighbors[e[1]], <<a, e[2]>>)
                            = Count(snp_neighbors[a], e)

\* A sorted graph in which a variant has two neighbors with different r2.
C3_Witness ==
    /\ pc = "done"
    /\ \E a \in DOMAIN snp_neighbors :
          /\ Len(snp_neighbors[a]) >= 2
          /\ snp_neighbors[a][1][1] # snp_neighbors[a][2][1]
          /\ snp_neighbors[a][1][2] # snp_neighbors[a][2][2]

\* C4: the sort leaves every neighbor list non-increasing in r2 and keeps
\* neighbors of equal r2 in the order in which they were read, and the lists
\* stay non-increasing from then on.
C4_NeighborOrdering ==
    [][/\ (pc = "sort" /\ pc' # "sort") =>
              \A x \in DOMAIN snp_neighbors :
                 SameOrderOfTies(snp_neighbors[x], snp_neighbors'[x])
       /\ GraphBuilt' =>
              \A x \in DOMAIN snp_neighbors' : NonIncreasing(snp_neighbors'[x])
      ]_vars

\* A sorted list with a tie between two different neighbors behind a
\* stronger neighbor.
C4_Witness ==
    /\ pc = "select"
    /\ \E x \in DOMAIN snp_neighbors :
          LET l == snp_neighbors[x]
          IN  /\ Len(l) >= 3
              /\ FloatGT(l[1][2], l[2][2])
              /\ l[2][2] = l[3][2]
              /\ l[2][1] # l[3][1]

\* C5: the seeds are floor(totalVariants * missing_rate) distinct variants,
\* the masked set is the union over the seeds of the seed and the first
\* min(k, length) entries of its list; so every seed is masked, there are
\* at most seeds * (k + 1) masked variants, and with k = 1 a seed whose
\* neighbors have r2 0.95 and 0.85 brings in the 0.95 neighbor only.
C5_Selection ==
    (strategy = "knn" /\ pc \in {"table", "done"}) =>
      LET n == Len(snp_list)
          seeds == {seed_snps[i] : i \in 1..Len(seed_snps)}
          Top(s) == LET l == Get(snp_neighbors, s)
                    IN  {l[i][1] : i \in 1..Len(l) \cap 1..k}
      IN  /\ Len(seed_snps) = FloorOf(n, missing_rate)
          /\ Cardinality(seeds) = Len(seed_snps)
          /\ seeds \subseteq unique_snps
          /\ masked_snps = seeds \cup UNION {Top(s) : s \in seeds}
          /\ seeds \subseteq masked_snps
          /\ Cardinality(masked_snps) <= Len(seed_snps) * (k + 1)
          /\ \A s \in seeds :
                (k = 1 /\ R2s(Get(snp_neighbors, s)) = <<PyFloat("0.95"), PyFloat("0.85")>>)
                  => /\ snp_neighbors[s][1][1] \in masked_snps
                     /\ (Len(seed_snps) = 1 =>
                           masked_snps = {s, snp_neighbors[s][1][1]})

\* C6: no variant is in its own neighbor list.
C6_NoSelfLoops ==
    \A a \in DOMAIN snp_neighbors :
       \A i \in 1..Len(snp_neighbors[a]) : snp_neighbors[a][i][1] # a

\* C7: a neighbor occupies one entry of a variant's list, however often and
\* in whichever direction the pair was read.
C7_OneEntryPerNeighbor ==
    \A a \in DOMAIN snp_neighbors :
       \A i, j \in 1..Len(snp_neighbors[a]) :
          (snp_neighbors[a][i][1] = snp_neighbors[a][j][1]
              /\ snp_neighbors[a][i][1] # a) => i = j

-----------------------------------------------------------------------------
(* Properties of the reader loops *)

ProcessedLines == SubSeq(file, 1, Processed)

Fields(line) == Split(Strip(line))

\* A line as the readers see it: its fields, and what float() makes of the
\* 7th when there is one.
ParsedFields(parts) ==
    [parts |-> parts,
     r2 |-> IF Len(parts) >= 7 THEN PyFloat(parts[7]) ELSE ValueError]

Parsed(line) == ParsedFields(Fields(line))

RECURSIVE ParsedAll(_)
ParsedAll(ls) ==
    IF ls = <<>> THEN <<>> ELSE <<Parsed(Head(ls))>> \o ParsedAll(Tail(ls))

\* The reasons the specification gives for a row not being retained.
FewFields(e) == Len(e.parts) < 7

IsHeader(e) == Len(e.parts) >= 7 /\ e.parts[7] = "R2"

Unparsable(e) == Len(e.parts) >= 7 /\ e.r2.kind = "err"

BelowThreshold(e) ==
    Len(e.parts) >= 7 /\ e.r2.kind # "err" /\ FloatLT(e.r2, r2_threshold)

ReadsAsNaN(e) == Len(e.parts) >= 7 /\ e.r2.kind = "nan"

MayDrop(e) == FewFields(e) \/ IsHeader(e) \/ Unparsable(e) \/ BelowThreshold(e)

\* Total number of entries of the neighbor lists.
RECURSIVE Entries(_, _)
Entries(g, S) ==
    IF S = {} THEN 0
    ELSE LET x == CHOOSE x \in S : TRUE
         IN  Len(g[x]) + Entries(g, S \ {x})

\* The rows of parsed lines.
RowsOf(es) == [i \in 1..Len(es) |-> Row(es[i].parts)]

\* The edges are those of the parsed lines es: the MAF+cluster edge table
\* holds exactly their rows in this order, the neighbor graph holds a pair of
\* entries for each and nothing else, and the unique variants are their keys.
EdgesAre(es) ==
    /\ unique_snps = KeysOf(RowsOf(es))
    /\ strategy = "maf" => Concat(chunks) = RowsOf(es)
    /\ strategy = "knn" =>
          /\ DOMAIN snp_neighbors = KeysOf(RowsOf(es))
          /\ Entries(snp_neighbors, DOMAIN snp_neighbors) = 2 * Len(es)
          /\ \A i \in 1..Len(es) :
                LET a == Key(es[i].parts[1], es[i].parts[2])
                    b == Key(es[i].parts[4], es[i].parts[5])
                IN  /\ Count(snp_neighbors[a], <<b, es[i].r2>>) >= 1
                    /\ Count(snp_neighbors[b], <<a, es[i].r2>>) >= 1

AllAtLeastThreshold(es) ==
    \A i \in 1..Len(es) : FloatGE(es[i].r2, r2_threshold)

Scenario ==
    <<"1 100 rs1 1 200 rs2 0.9\n", "1 200 rs2 1 300 rs3 0.5\n",
      " CHR_A BP_A SNP_A CHR_B BP_B SNP_B R2 \n">>

ScenarioHolds ==
    (file = Scenario /\ r2_threshold = PyFloat("0.8") /\ Processed = 3) =>
       /\ unique_snps = {"1_100", "1_200"}
       /\ strategy = "maf" =>
             Concat(chunks) = <<<<"1", "100", "rs1", "1", "200", "rs2", "0.9">>>>
       /\ strategy = "knn" =>
             snp_neighbors = ("1_100" :> <<<<"1_200", PyFloat("0.9")>>>>)
                                 @@ ("1_200" :> <<<<"1_100", PyFloat("0.9")>>>>)

\* The parsed lines es are the edges retained, and each of them has
\* r2 >= r2_threshold.
KeptAre(es) == EdgesAre(es) /\ AllAtLeastThreshold(es)

\* C1 as stated: in the k-nearest and MAF+cluster readers the rows retained
\* are the rows read that have none of the four reasons to be dropped, and
\* every one of them has r2 >= r2_threshold.
C1_AsStated ==
    strategy \in {"knn", "maf"} =>
       /\ KeptAre(SelectSeq(ParsedAll(ProcessedLines), LAMBDA e : ~MayDrop(e)))
       /\ ScenarioHolds

\* C1 (amended): every retained edge has r2 >= r2_threshold, and every row
\* that is not retained has fewer than 7 fields, has 'R2' as 7th field, has
\* an R2 that float() rejects, has an R2 below the threshold, or has an R2
\* that float() reads as NaN. The three-line scenario leaves one edge
\* between 1_100 and 1_200 and two unique variants.
C1_Threshold ==
    strategy \in {"knn", "maf"} =>
       /\ KeptAre(SelectSeq(ParsedAll(ProcessedLines),
                            LAMBDA e : ~(MayDrop(e) \/ ReadsAsNaN(e))))
       /\ ScenarioHolds

\* The whole file is read, with a row at the threshold retained and a row
\* below it, a header and a NaN row dropped.
C1_Witness ==
    /\ strategy \in {"knn", "maf"} /\ pc \in {"sort", "loaded"}
    /\ r2_threshold = PyFloat("0.8")
    /\ "1_300" \in unique_snps /\ Cardinality(unique_snps) = 2
    /\ \E i \in 1..Len(file) : ReadsAsNaN(Parsed(file[i]))
    /\ \E i \in 1..Len(file) :
          BelowThreshold(Parsed(file[i])) \/ IsHeader(Parsed(file[i]))

\* The rows of the lines that have at least 7 fields and a 7th field that is
\* not 'R2'.
PassingRow(parts) ==
    IF Len(parts) >= 7 /\ parts[7] # "R2" THEN <<Row(parts)>> ELSE <<>>

RECURSIVE PassingRows(_)
PassingRows(ls) ==
    IF ls = <<>> THEN <<>>
    ELSE PassingRow(Fields(Head(ls))) \o PassingRows(Tail(ls))

\* The rows of the lines that pass this test and whose R2 float() reads as
\* a number that is at least r2_threshold.
RetainedRows(ls) ==
    RowsOf(SelectSeq(ParsedAll(ls),
                     LAMBDA e : ~(MayDrop(e) \/ ReadsAsNaN(e))))

\* What a reader holds is what the rows `passing` contribute, and nothing
\* else: the loader and the MAF+cluster reader hold the rows, the readers
\* that collect keys hold their keys, and the neighbor graph has two
\* entries for each row.
HandedOn(passing) ==
    /\ strategy \in {"loader", "maf"} => Concat(chunks) = passing
    /\ strategy # "loader" => unique_snps = KeysOf(passing)
    /\ strategy = "knn" =>
          /\ DOMAIN snp_neighbors = KeysOf(passing)
          /\ Entries(snp_neighbors, DOMAIN snp_neighbors) = 2 * Len(passing)

\* C2 as stated: in every reader loop a line contributes a row or its two
\* keys if and only if it has at least 7 fields and its 7th field is not
\* 'R2'.
C2_AsStated == HandedOn(PassingRows(ProcessedLines))

\* C2 (amended): in the loader and in the column-wise, random and row-wise
\* readers a line contributes a row or its two keys if and only if it has at
\* least 7 fields and its 7th field is not 'R2'; in the k-nearest and
\* MAF+cluster readers it contributes if and only if it passes this test
\* and float() reads its R2 as a number that is at least r2_threshold.  So
\* no reader takes anything from a line of fewer than 7 fields or from a
\* header, wherever in the file and in whichever batch it is.
C2_LineFilter ==
    HandedOn(IF strategy \in {"knn", "maf"} THEN RetainedRows(ProcessedLines)
             ELSE PassingRows(ProcessedLines))

\* The k-nearest reader at the end of a file read in batches of two: a row
\* below the threshold and a row it retained, and the header as the last
\* line, alone in the second batch.
C2_Witness ==
    /\ strategy = "knn" /\ pc = "sort"
    /\ batch_size = 2 /\ Len(file) = 3
    /\ IsHeader(Parsed(file[3])) /\ BelowThreshold(Parsed(file[1]))
    /\ ~(MayDrop(Parsed(file[2])) \/ ReadsAsNaN(Parsed(file[2])))
    /\ Cardinality(unique_snps) = 2
    /\ Entries(snp_neighbors, DOMAIN snp_neighbors) = 2

-----------------------------------------------------------------------------
(* Properties of the column-wise and random pipelines *)


\* C8: for every set of n unique variants the column-wise pipeline selects
\* exactly floor(n * missing_rate) distinct variants, all of them unique
\* variants of the file, which is at most ceil(n * missing_rate); the table
\* is made, with one row for each variant and MASKED true in the rows of
\* the variants selected, as many as the reported masked count.
C8_ColumnWise ==
    (strategy = "col" /\ pc \in {"table", "done", "raised"}) =>
       LET n == Cardinality(unique_snps)
           m == Len(masked_snps)
           mask_data == ColMaskData(snp_list, masked_snps)
       IN  /\ Len(snp_list) = n
           /\ m = FloorOf(n, missing_rate)
           /\ m <= CeilOf(n, missing_rate)
           /\ Cardinality(SeqToSet(masked_snps)) = m
           /\ SeqToSet(masked_snps) \subseteq unique_snps
           /\ Len(mask_data) = n
           /\ Cardinality({i \in 1..n : mask_data[i][4]}) = m
           /\ {mask_data[i][3] : i \in {j \in 1..n : mask_data[j][4]}}
                  = SeqToSet(masked_snps)
           /\ pc # "raised"
           /\ pc = "done" =>
                 /\ Len(mask_df) = n
                 /\ \A i \in 1..n : mask_df[i][3] = snp_list[i]
                 /\ Cardinality({i \in 1..n : mask_df[i][4]}) = m
                 /\ {mask_df[i][3] : i \in {j \in 1..n : mask_df[j][4]}}
                        = SeqToSet(masked_snps)

\* The number of variants other than i whose stage-1 score is below the
\* score of i, and the number of those whose score is not above it.
ScoresBelow(i) ==
    Cardinality({j \in 1..Len(snp_list) :
                    FloatLT(mask_sets[1][j], mask_sets[1][i + 1])})

ScoresNotAbove(i) ==
    Cardinality({j \in 1..Len(snp_list) \ {i + 1} :
                    FloatLE(mask_sets[1][j], mask_sets[1][i + 1])})

\* C9: stage 2 keeps exactly the stage-1 candidates (the target number of
\* variants with the lowest stage-1 scores) whose stage-2 score is strictly
\* greater than 0.3; the backfill adds variants that were not selected, and
\* the final masked set holds distinct indices in 0..n-1, never more than
\* the target floor(n * missing_rate), and exactly the target.
C9_RandomStages ==
    (strategy = "rand" /\ pc \in {"backfill", "quantify", "done"}) =>
       LET n == Len(snp_list)
           target == FloorOf(n, missing_rate)
       IN  /\ \A i \in stage2 :
                 /\ ScoresBelow(i) < target
                 /\ FloatGT(mask_sets[2][i + 1], Stage2Threshold)
           /\ \A i \in 0..n - 1 :
                 (ScoresNotAbove(i) < target
                     /\ FloatGT(mask_sets[2][i + 1], Stage2Threshold))
                   => i \in stage2
           /\ pc \in {"quantify", "done"} =>
                 /\ stage2 \subseteq masked_indices
                 /\ masked_indices \subseteq 0..n - 1
                 /\ Cardinality(masked_indices) <= target
                 /\ Cardinality(masked_indices) = target
                 /\ pc = "done" =>
                       {i \in 0..n - 1 : mask_df[i + 1][4]} = masked_indices

\* C10: a strategy called again in the same process, on the same file and
\* with the same parameters, returns the table it returned the first time,
\* whatever was drawn from the global generator in between.
C10_Determinism ==
    (pc = "done" /\ strategy \in DOMAIN first_out) =>
       mask_df = first_out[strategy]

\* The third call: a strategy has returned its table again after another
\* strategy ran in between.
C10_Witness ==
    /\ pc = "done" /\ runs = 3
    /\ strategy \in DOMAIN first_out
    /\ Cardinality(DOMAIN first_out) >= 2
    /\ Len(mask_df) = 2
    /\ \E i \in 1..2 : mask_df[i][4]

-----------------------------------------------------------------------------
(* Malformed R2 *)

\* C11: a row of at least 7 fields whose R2 float() rejects is dropped
\* without an error: what a reader has collected (variant keys, edge rows,
\* neighbor entries) is what the other rows read so far contribute.
C11_MalformedR2Dropped ==
    LET numeric == SelectSeq(ParsedAll(ProcessedLines),
                       LAMBDA e : ~FewFields(e) /\ ~IsHeader(e) /\ ~Unparsable(e))
    IN  /\ pc # "raised"
        /\ strategy \in {"col", "rand", "row"} =>
              unique_snps = KeysOf(RowsOf(numeric))
        /\ strategy \in {"knn", "maf"} =>
              EdgesAre(SelectSeq(numeric,
                                 LAMBDA e : FloatGE(e.r2, r2_threshold)))

-----------------------------------------------------------------------------
(* Empty filtered dataset *)

\* C12: a create_mask_from_ld call in which no row passed the filters ends
\* by returning, not by raising, and its table has no masked entity.
C12_EmptyDatasetCompletes ==
    (unique_snps = {} /\ pc \in {"done", "raised"}) =>
       /\ pc = "done"
       /\ \A i \in 1..Len(mask_df) : ~mask_df[i][4]

-----------------------------------------------------------------------------
(* The registry of the graph builder *)

\* The keys of the two ends of the retained edges.
Endpoints == KeysOf(df)

\* The code the fitted encoder gives a key.
Code(key) == Transform(classes, <<key>>)[1]

\* C13: once the encoder is fit on the keys of the retained edges, every
\* end of a retained edge has a code, the code resolves to the key,
\* distinct keys have distinct codes, and in every batch of edges the
\* source and target entries are the codes of the row's two keys.
C13_RegistryBijection ==
    (strategy = "loader" /\ pc \in {"edges", "features", "done"}) =>
       /\ \A key \in Endpoints :
             /\ Code(key) \in 0..(Len(classes) - 1)
             /\ InverseTransform(classes, Code(key)) = key
       /\ \A a, b \in Endpoints : Code(a) = Code(b) => a = b
       /\ \A c \in 0..(Len(classes) - 1) :
             InverseTransform(classes, c) \in Endpoints
       /\ pc \in {"features", "done"} =>
             LET frames == IterSlices(df, batch_size)
             IN  /\ Len(edge_indices) = Len(frames)
                 /\ \A b \in 1..Len(frames) : \A i \in 1..Len(frames[b]) :
                       LET row == frames[b][i]
                       IN  /\ edge_indices[b][1][i] = Code(Key(row[1], row[2]))
                           /\ edge_indices[b][2][i] = Code(Key(row[4], row[5]))

\* Three variants, and one of them referenced by two batches of edges.
C13_Witness ==
    /\ pc \in {"features", "done"} /\ Len(classes) = 3 /\ Len(edge_indices) >= 2
    /\ \E c \in 0..2 :
          /\ c \in SeqToSet(edge_indices[1][1]) \cup SeqToSet(edge_indices[1][2])
          /\ c \in SeqToSet(edge_indices[2][1]) \cup SeqToSet(edge_indices[2][2])

-----------------------------------------------------------------------------
(* The MAF simulator *)

\* simulate_maf has returned.
Simulated == strategy = "maf" /\ pc \in {"cluster", "raised"}

\* C14: every value simulate_maf returns is in [0, 0.5], whether the state
\* it was emitted from is rare or common.
C14_MafBound ==
    Simulated =>
       /\ Len(maf_values) = Len(states)
       /\ \A i \in 1..Len(maf_values) :
             /\ FloatGE(maf_values[i], Zero(0))
             /\ FloatLE(maf_values[i], MafCap)

\* A rare state next to a common state whose draw was above 0.5: its value
\* is above 0.25.
C14_Witness ==
    /\ Simulated
    /\ \E i, j \in 1..Len(states) :
          /\ states[i] = 0 /\ FloatLT(maf_values[i], MafCap)
          /\ states[j] = 1 /\ FloatGT(maf_values[j], FMul(MafCap, MafCap))

-----------------------------------------------------------------------------
(* The clustering engine *)

\* self.cluster_size_min
cluster_size_min == 3

\* create_ld_clusters has been called and has ended.
ClusteringEnded ==
    strategy = "maf"
       /\ pc \notin {"read", "process", "loaded", "simulate", "chain", "cluster"}

\* The variants of the clusters returned.
Clustered == UNION {SeqToSet(clusters[c]) : c \in DOMAIN clusters}

\* C15: create_ld_clusters returns its clusters, each of at least
\* cluster_size_min members; a variant outside them has CLUSTER_ID -1 in
\* the table and is masked only if the MAF channel drew it.
C15_ClusterValidity ==
    ClusteringEnded =>
       /\ pc # "raised"
       /\ \A c \in DOMAIN clusters : Len(clusters[c]) >= cluster_size_min
       /\ \A i \in 1..Len(mask_df) :
             mask_df[i][3] \notin Clustered =>
                /\ mask_df[i][7] = -1
                /\ mask_df[i][4] => InSeq(mask_df[i][3], seed_snps)

\* snp_to_idx[snp], from 1
SnpToIdx(snp) == CHOOSE i \in 1..Len(snp_list) : snp_list[i] = snp

\* distance_matrix = 1 - ld_matrix, of the matrix as create_ld_clusters
\* left it.
DistanceMatrix ==
    [i \in 1..Len(ld_matrix) |->
        [j \in 1..Len(ld_matrix) |-> FSub(IntToFloat(1), ld_matrix[i][j])]]

\* The R2 values of the retained edges that join the i-th and j-th variant.
EdgeR2s(i, j) ==
    {PyFloat(LdData[e][7]) : e \in
        {e \in 1..Len(LdData) :
            {SnpToIdx(Key(LdData[e][1], LdData[e][2])),
             SnpToIdx(Key(LdData[e][4], LdData[e][5]))} = {i, j}}}

\* C16: when create_ld_clusters has been given a table with rows, the
\* distance matrix is symmetric, 0 on the diagonal, 1 - r2 for two variants
\* joined by a retained edge, and 1 for two variants that no edge joins.
C16_DistanceMatrix ==
    (ClusteringEnded /\ LdData # <<>>) =>
       LET n == Len(snp_list)
           d == DistanceMatrix
       IN  /\ Len(d) = n
           /\ \A i, j \in 1..n :
                 /\ d[i][j] = d[j][i]
                 /\ i = j => d[i][j] = Zero(0)
                 /\ (i # j /\ EdgeR2s(i, j) # {}) =>
                       \E r \in EdgeR2s(i, j) :
                          d[i][j] = FSub(IntToFloat(1), r)
                 /\ (i # j /\ EdgeR2s(i, j) = {}) => d[i][j] = IntToFloat(1)

-----------------------------------------------------------------------------
(* The tiers of the row-wise simulator *)

\* C17: before the shuffle and after it the category list of n samples has
\* floor(7n / 10) 'low', floor(2n / 10) 'medium' and the rest 'high'
\* entries, n in all, one for each sample.
C17_TierPartition ==
    pc \in {"shuffle", "apply", "table", "done", "raised"} =>
       LET n == Len(sample_ids)
       IN  /\ Count(sample_categories, "low") = (7 * n) \div 10
           /\ Count(sample_categories, "medium") = (2 * n) \div 10
           /\ Count(sample_categories, "high")
                 = n - (7 * n) \div 10 - (2 * n) \div 10
           /\ Len(sample_categories) = n

-----------------------------------------------------------------------------
(* Memory held while streaming *)

\* The rows a pipeline holds that the R2 threshold has not been applied
\* to: the lines of the current batch, and in the graph builder the frames
\* load_ld_data has collected for the filter that runs after it.
RawRowsHeld ==
    Len(lines)
       + (IF strategy = "loader" /\ pc \in {"read", "process", "loaded"}
          THEN Len(Concat(chunks)) ELSE 0)

\* C18: at every point of a run the rows held that have not passed the R2
\* threshold filter are at most batch_size.
C18_BoundedMemory == RawRowsHeld <= batch_size

-----------------------------------------------------------------------------
(* The two channels of the MAF+cluster mask *)

\* self.maf_threshold
maf_threshold == PyFloat("0.05")

\* rare_snps
RareSnps ==
    {snp_list[i] : i \in {i \in 1..Len(snp_list) :
                            FloatLT(maf_values[i], maf_threshold)}}

\* C19: a MAF+cluster run ends with a masked set that is the union of
\* channel A, min(floor(2 * missing_rate * |rare|), |rare|) distinct rare
\* variants, and channel B, all members of
\* max(1, floor(missing_rate * clusterCount)) distinct valid clusters.
C19_MaskedUnion ==
    (strategy = "maf" /\ pc \in {"done", "raised"}) =>
       /\ pc = "done"
       /\ LET A == SeqToSet(seed_snps)
               nA == Min(FloorOf(2 * Cardinality(RareSnps), missing_rate),
                         Cardinality(RareSnps))
               nB == Max(1, FloorOf(Cardinality(DOMAIN clusters), missing_rate))
           IN  /\ A \subseteq RareSnps /\ Cardinality(A) = nA
               /\ \E S \in SUBSET (DOMAIN clusters) :
                     /\ Cardinality(S) = nB
                     /\ masked_snps
                           = A \cup UNION {SeqToSet(clusters[c]) : c \in S}

-----------------------------------------------------------------------------
(* The order of the Markov chain *)

\* The chromosome and the position of a key.
ChrOf(snp) == SplitOn(snp, "_")[1]

PosOf(snp) == DigitsVal(SplitOn(snp, "_")[2])

\* The variants whose state the chain has drawn so far: the i-th state
\* drawn is that of the i-th variant of snp_positions.
Assigned == {snp_list[i] : i \in 1..Min(Len(states), Len(snp_list))}

\* C20: the chain runs in genomic order: whenever a variant has its state
\* and another of the same chromosome has not, the first has the smaller
\* position; and entry i of the returned array is that of the i-th variant
\* in order of position.
C20_ChainOrder ==
    (strategy = "maf" /\ pc \in {"chain", "cluster", "raised"}) =>
       /\ \A a \in Assigned : \A b \in SeqToSet(snp_list) \ Assigned :
             ChrOf(a) = ChrOf(b) => PosOf(a) < PosOf(b)
       /\ Simulated =>
             \A i, j \in 1..Len(snp_list) :
                (i < j /\ ChrOf(snp_list[i]) = ChrOf(snp_list[j]))
                   => PosOf(snp_list[i]) < PosOf(snp_list[j])

-----------------------------------------------------------------------------
(* Independence of the batch size *)

\* What a reader has collected when it has read the whole file.
ReadOver == pc = AfterRead(strategy)

\* C21: what a reader has collected at the end of the file is a function
\* of the file alone, the one a line-by-line reading computes: the same
\* unique variants, the same retained rows in the same order, and the same
\* neighbor lists in the same order, whatever batch_size is.
C21_BatchSizeIndependence ==
    ReadOver =>
       /\ strategy \in {"col", "rand", "row"} =>
             unique_snps = KeysLines({}, file)
       /\ strategy = "knn" =>
             LET st == KnnLines([g |-> <<>>, u |-> {}], file, r2_threshold)
             IN  snp_neighbors = st.g /\ unique_snps = st.u
       /\ strategy = "maf" =>
             LET st == MafLines([rows |-> <<>>, u |-> {}], file, r2_threshold)
             IN  Concat(chunks) = st.rows /\ unique_snps = st.u
       /\ strategy = "loader" => Concat(chunks) = LoaderRows(file)

-----------------------------------------------------------------------------
(* Keys and the fields they were made of *)

\* The (chromosome, position) pairs of the rows a key-collecting reader
\* has kept.
PairsRead ==
    UNION {{<<Fields(l)[1], Fields(l)[2]>>, <<Fields(l)[4], Fields(l)[5]>>} :
           l \in {l \in SeqToSet(ProcessedLines) : LineOk(Fields(l))}}

\* C22: splitting a key on '_' gives back the chromosome and the position
\* it was made of, so the table has a row with that CHR, POS and key for
\* every pair read, and two different pairs have different keys.
C22_KeyRoundTrip ==
    /\ \A p \in PairsRead :
          /\ SplitOn(Key(p[1], p[2]), "_") = <<p[1], p[2]>>
          /\ \A q \in PairsRead : Key(p[1], p[2]) = Key(q[1], q[2]) => p = q
    /\ pc = "done" =>
          \A p \in PairsRead :
             \E i \in 1..Len(mask_df) :
                /\ mask_df[i][1] = p[1] /\ mask_df[i][2] = p[2]
                /\ mask_df[i][3] = Key(p[1], p[2])

-----------------------------------------------------------------------------
(* Codes and node features *)

\* The node features, x, of the graph returned.
X == NodeFeatures(nodes)

\* build_pytorch_geometric_graph has returned its Data.
GraphReturned == strategy = "loader" /\ pc = "done"

\* C23: in the graph returned, row c of the node features holds the
\* chromosome and the position of the variant whose code is c, so that the
\* two codes of an edge index the features of the edge's two variants.
C23_CodeFeatureAlignment ==
    GraphReturned =>
       /\ Len(X) = Len(classes)
       /\ \A c \in 0..(Len(classes) - 1) :
             LET key == InverseTransform(classes, c)
             IN  X[c + 1] = <<ToFloat32(CastFloat64(SplitOn(key, "_")[1])),
                              ToFloat32(CastFloat64(SplitOn(key, "_")[2]))>>

-----------------------------------------------------------------------------
(* The row filters of the pipelines *)

\* The rows of a file that the filter of the k-nearest and MAF pipelines
\* retains: batch_data of MAFClusterMasking over all the lines.
Retained(f, thr) == MafLines([rows |-> <<>>, u |-> {}], f, thr).rows

\* The NeighborGraph and unique-variant set the k-nearest pipeline builds of a
\* file.
NeighborGraphOf(f, thr) == KnnLines([g |-> <<>>, u |-> {}], f, thr)

\* The graph builder has filtered the frame it loaded.
GraphFiltered ==
    strategy = "loader" /\ pc \in {"nodes", "edges", "features", "done"}

\* C24: for the same file and r2_threshold, the rows the graph builder's
\* filter retains are the rows the k-nearest and MAF filter retains, and the
\* unique-variant set of the tensor graph is that of the NeighborGraph.
C24_FilterAgreement ==
    GraphFiltered =>
       /\ SeqToSet(df) = SeqToSet(Retained(file, r2_threshold))
       /\ pc # "nodes" =>
             unique_snps = NeighborGraphOf(file, r2_threshold).u

-----------------------------------------------------------------------------
(* The NeighborGraph and the unique-variant set *)

\* The seeds selected, as a set.
Seeds == SeqToSet(seed_snps)

\* C25: in the k-nearest strategy the keys of the NeighborGraph are the
\* unique variants at every point of the read and after it, every row of the
\* table has N_NEIGHBORS >= 1, and every seed selected is a key of the graph.
C25_GraphCoversVariants ==
    strategy = "knn" =>
       /\ DOMAIN snp_neighbors = unique_snps
       /\ \A i \in 1..Len(mask_df) : mask_df[i][6] >= 1
       /\ Seeds \subseteq DOMAIN snp_neighbors

\* A run that has written a table of three variants or more with a seed in it.
C25_Witness ==
    /\ strategy = "knn" /\ pc = "done"
    /\ Len(mask_df) >= 3 /\ Seeds # {}
    /\ \E i \in 1..Len(mask_df) : mask_df[i][5]
====
